---- MODULE Spec2Model ----
(***************************************************************************)
(* State-machine model of AdvancedMinecraftScanner                         *)
(* (src/minecraft_scanner.js): the candidate-address generator, the        *)
(* per-/24 rate limiter and blacklist, the batch dispatcher, the probe     *)
(* task (scanSingleServer / checkMinecraftServer / saveServer) and the     *)
(* resetStats control command.                                             *)
(*                                                                         *)
(* Node.js runs one handler at a time; every action below is one handler   *)
(* run to its next await.  The synchronous loop of performScanBatch is     *)
(* unrolled one iteration per step, and no other handler runs while the    *)
(* dispatcher is inside it (pc = "draw").                                  *)
(***************************************************************************)
EXTENDS Integers, Sequences, FiniteSets, TLC

VARIABLES
    config,            \* this.config, fixed during a scan
    stats,             \* this.stats
    serverCache,       \* this.serverCache: a JS Set, kept in insertion order
    ipBlacklist,       \* this.ipBlacklist
    rateLimiter,       \* this.rateLimiter: Map subnet -> timestamp (ms)
    catalog,           \* lines appended to config.outputFile in this session
    jsonFile,          \* servers array of the JSON catalog file
    emitted,           \* payloads of the 'serverFound' events, in order
    tasks,             \* the scanSingleServer promises of the current batch
    pc,                \* position of startScanning / performScanBatch
    batchIndex,        \* loop variable i of performScanBatch
    candidate,         \* last value returned by generateSmartIP in this batch
    loopWake,          \* time at which the dispatcher's pending delay() ends
    now,               \* Date.now(), in ms
    isPaused,          \* this.isPaused
    shouldStop,        \* this.shouldStop
    isRunning,         \* this.isRunning
    stopPc,            \* position of the shutdown() that stop() awaits
    sessionStats,      \* statistics serialized for session-stats.json by shutdown
    summaries,         \* scan-summary files written by exportResults, in order
    shutdownEvents,    \* number of 'shutdown' events emitted
    pauses,            \* history: number of pause() calls
    socket,            \* performServerPing: state of its net.Socket
    hasResponded,      \* performServerPing: let hasResponded
    timeoutArmed,      \* performServerPing: its setTimeout is pending
    responseBuffer,    \* performServerPing: let responseBuffer, as chunks
    resolved,          \* performServerPing: arguments of the resolve() calls
    closePending,      \* the socket's 'close' event is queued
    timedOut,          \* history: the timeout callback has run
    call,              \* the function applied on its own ("none": no call)
    arg,               \* the argument of that call
    result,            \* what the call returned
    faults,            \* history: exceptions raised at dispatcher level
    foundAtStart,      \* history: totalFound as loaded by loadExistingData
    scannedDiscarded,  \* history: totalScanned values zeroed by resetStats
    resets             \* history: number of resetStats() calls

controlVars == <<isPaused, shouldStop, isRunning, stopPc, sessionStats,
                 summaries, shutdownEvents, pauses>>

pingVars == <<socket, hasResponded, timeoutArmed, responseBuffer, resolved,
              closePending, timedOut>>

callVars == <<call, arg, result>>

vars == <<config, stats, serverCache, ipBlacklist, rateLimiter, catalog,
          jsonFile, emitted, tasks, pc, batchIndex, candidate, loopWake, now,
          foundAtStart, scannedDiscarded, resets, controlVars, pingVars,
          callVars, faults>>

-----------------------------------------------------------------------------
(* Bounds of the model *)

MaxScans == 3          \* config.maxScans of the modelled sessions
BatchSize == 2         \* config.batchSize of the modelled sessions
MaxHost == 2           \* last octets drawn by Math.random: 1..MaxHost
MaxRangeIdx == 1       \* popular ranges drawn by Math.random: 1..MaxRangeIdx
MaxResets == 1         \* resetStats() calls per session
MaxPauses == 1         \* pause() calls per session
MaxFaults == 1         \* exceptions raised at dispatcher level per session
MaxChunks == 4         \* 'data' events per ping
MaxHeader == 5         \* bytes of a response before its text
MaxText == 4           \* bytes of the text of a response
TrimN == 4             \* the trim threshold scaled down: trim above TrimN
MaxCache == 5          \* entries of a seen-set that is trimmed
MaxServers == 2        \* servers appended to a catalog that is read back
MaxTicks == 3          \* clock ticks per session
Tick == 500            \* granularity of the clock, ms

(* Program constants *)

RateLimitMs == 1000        \* isRateLimited: 1 second per /24
RateLimitedDelayMs == 100  \* delay(100) of a rate-limited check
RetryDelayMs == 500        \* delay(500 * (retryCount + 1))
LoopDelayMs == 10          \* delay(10) between batches
PauseDelayMs == 1000       \* delay(1000) of the paused dispatcher
MaintenanceEvery == 50000  \* totalScanned % 50000 === 0
CleanupAgeMs == 300000     \* cleanupRateLimiter: 5 minutes
TrimAbove == 1000000       \* performMaintenance: serverCache.size > 1000000
TrimKeep == 500000         \* cacheArray.slice(-500000)
Infinity == 1000000000     \* options.maxPlayers || Infinity

-----------------------------------------------------------------------------
(* Optional values: null is <<>>, a value v is <<v>> *)

Null == <<>>
Some(v) == <<v>>
IsNull(o) == o = <<>>
Val(o) == o[1]

Pow2(n) == 2 ^ n

\* JavaScript's numeric coercion of a configuration value in a comparison:
\* null compares as 0
ToNumber(o) == IF IsNull(o) THEN 0 ELSE Val(o)

\* JSON.parse(JSON.stringify(v)) of a numeric configuration value: Infinity
\* is written as null
JsonValue(o) == IF o = Some(Infinity) THEN Null ELSE o

Min(a, b) == IF a < b THEN a ELSE b

-----------------------------------------------------------------------------
(* Addresses: four octets.  The unsigned 32-bit form of an address is     *)
(* kept as its two 16-bit halves <<high, low>>, so that every value stays  *)
(* inside the model checker's integers.                                    *)

ipToNumber(ip) == <<ip[1] * 256 + ip[2], ip[3] * 256 + ip[4]>>

numberToIP(num) ==
    << (num[1] \div 256) % 256, num[1] % 256,
       (num[2] \div 256) % 256, num[2] % 256 >>

\* num & mask, mask = (0xFFFFFFFF << hostBits) >>> 0, for 0 < hostBits < 32
MaskHost(num, hostBits) ==
    IF hostBits <= 16
    THEN <<num[1], (num[2] \div Pow2(hostBits)) * Pow2(hostBits)>>
    ELSE <<(num[1] \div Pow2(hostBits - 16)) * Pow2(hostBits - 16), 0>>

isValidIP(ip) == \A i \in 1..4 : ip[i] >= 0 /\ ip[i] <= 255

\* isPublicIP without its test for 10.0.0.0/8
isPublicIPAllowsTen(ip) ==
    /\ isValidIP(ip)
    /\ ~ \/ ip[1] = 172 /\ ip[2] >= 16 /\ ip[2] <= 31
         \/ ip[1] = 192 /\ ip[2] = 168
         \/ ip[1] = 127
         \/ ip[1] = 169 /\ ip[2] = 254
         \/ ip[1] >= 224

isPublicIP(ip) ==
    /\ isValidIP(ip)
    /\ ~ \/ ip[1] = 10
         \/ ip[1] = 172 /\ ip[2] >= 16 /\ ip[2] <= 31
         \/ ip[1] = 192 /\ ip[2] = 168
         \/ ip[1] = 127
         \/ ip[1] = 169 /\ ip[2] = 254
         \/ ip[1] >= 224

Subnet(ip) == <<ip[1], ip[2], ip[3]>>

Cidr(a, b, c, d, p) == [base |-> <<a, b, c, d>>, prefix |-> p]

getExcludedRanges ==
    { Cidr(10, 0, 0, 0, 8), Cidr(172, 16, 0, 0, 12), Cidr(192, 168, 0, 0, 16),
      Cidr(127, 0, 0, 0, 8), Cidr(169, 254, 0, 0, 16), Cidr(224, 0, 0, 0, 4),
      Cidr(240, 0, 0, 0, 4) }

getDefaultRanges ==
    { Cidr(a, 0, 0, 0, 8) : a \in {1, 2, 3, 4, 8, 9, 11, 12, 13, 15, 16, 17,
                                   18, 19, 20, 21, 22, 23, 24, 25} }

popularRanges ==
    << Cidr(8, 8, 8, 0, 24), Cidr(1, 1, 1, 0, 24), Cidr(4, 4, 4, 0, 24),
       Cidr(208, 67, 222, 0, 24) >>

\* (base & mask) | randomHost, for a host below 2^hostBits
generateIPFromRange(cidr, randomHost) ==
    LET hostBits == 32 - cidr.prefix
        net == MaskHost(ipToNumber(cidr.base), hostBits)
    IN  numberToIP(<<net[1] + (randomHost \div Pow2(16)),
                     net[2] + (randomHost % Pow2(16))>>)

-----------------------------------------------------------------------------
(* The seen-set, a JS Set in insertion order *)

CacheHas(cache, ip) == \E i \in 1..Len(cache) : cache[i] = ip

CacheAdd(cache, ip) == IF CacheHas(cache, ip) THEN cache ELSE Append(cache, ip)

-----------------------------------------------------------------------------
(* Configurations of the modelled sessions, as loadConfiguration leaves    *)
(* this.config.  DefaultConfig keeps the constructor's retry, mode, range  *)
(* and filter defaults, exports the text catalog only, and runs one batch  *)
(* of concurrent probes; the other two probe one address at a time.        *)

DefaultConfig ==
    [ maxRetries    |-> 2,
      batchSize     |-> BatchSize,
      maxConcurrent |-> BatchSize,
      maxScans      |-> Some(BatchSize),
      exportJson    |-> FALSE,
      scanMode      |-> "smart-random",
      ipRanges      |-> getDefaultRanges,
      excludeRanges |-> getExcludedRanges,
      versionFilter |-> Null,
      minPlayers    |-> 0,
      maxPlayers    |-> Some(Infinity) ]

FilteredConfig ==
    [ DefaultConfig EXCEPT
        !.maxRetries    = 1,
        !.maxConcurrent = 1,
        !.maxScans      = Some(MaxScans),
        !.exportJson    = TRUE,
        !.scanMode      = "random",
        !.excludeRanges = getExcludedRanges \cup {Cidr(8, 0, 0, 0, 8)},
        !.versionFilter = Some({"1.20.4"}),
        !.minPlayers    = 1,
        !.maxPlayers    = Some(20) ]

RangeConfig ==
    [ DefaultConfig EXCEPT
        !.maxConcurrent = 1,
        !.maxScans      = Some(MaxScans),
        !.scanMode      = "range",
        !.ipRanges      = {Cidr(9, 0, 0, 0, 8)} ]

Configs == {DefaultConfig, FilteredConfig, RangeConfig}

\* the constructor's export formats, ['txt', 'json'], with concurrent probes
JsonConfig == [DefaultConfig EXCEPT !.exportJson = TRUE]

\* this.config of a scanner constructed without a maxScans option
ConstructorDefaults == [DefaultConfig EXCEPT !.maxScans = Some(Infinity)]

\* saveConfiguration: the object that JSON.stringify(this.config) stores in
\* config.json, as JSON.parse returns it
saveConfiguration(cfg) ==
    [cfg EXCEPT !.maxScans = JsonValue(@), !.maxPlayers = JsonValue(@)]

\* config.json at startup: absent, or written by an earlier run of a scanner
\* constructed without a maxScans option
ConfigFiles == {Null, Some(saveConfiguration(ConstructorDefaults))}

\* loadConfiguration: { ...this.config, ...savedConfig }; the saved object
\* holds every key.  Without a file this.config is kept (and saved).
loadConfiguration(cfg, file) == IF IsNull(file) THEN cfg ELSE Val(file)

(* What a previous session left on disk: the addresses of the catalog      *)
(* file (absent file: exists = FALSE) and session-stats.json's totalFound. *)

PreviousSessions ==
    { [exists |-> FALSE, ips |-> <<>>, totalFound |-> 0,
       serversByVersion |-> <<>>],
      [exists |-> TRUE, ips |-> << <<8, 8, 8, 2>> >>, totalFound |-> 1,
       serversByVersion |-> [v \in {"1.20.4"} |-> 1]] }

(* The remote world: the status the server at an address answers with     *)
(* when it answers at all (any ping may also get no response).  throws:    *)
(* the description is of a shape on which extractDescription / extractMOTD *)
(* raise a TypeError, e.g. {"description": {"text": 5}}.                   *)

Status(version, online, throws) ==
    [version |-> version, online |-> online, throws |-> throws]

ServerAt(ip) ==
    CASE ip = <<8, 8, 8, 1>> -> Status("1.20.4", 5, FALSE)
      [] ip = <<8, 8, 8, 2>> -> Status("1.20.4", 5, TRUE)
      [] ip = <<9, 9, 9, 1>> -> Status("1.20.4", 50, FALSE)
      [] ip = <<9, 9, 9, 2>> -> Status("1.8.9", 5, FALSE)
      [] OTHER -> Status("1.20.4", 0, FALSE)

(* Values of four Math.random() octets in generateRandomPublicIP *)
RandomSample ==
    { <<9, 9, 9, 1>>, <<10, 0, 0, 1>>, <<172, 16, 0, 1>>, <<192, 168, 0, 1>>,
      <<127, 0, 0, 1>>, <<169, 254, 0, 1>>, <<224, 0, 0, 1>>, <<240, 0, 0, 1>> }

HostSample == 1..MaxHost

-----------------------------------------------------------------------------
(* Enrichment and filters *)

enhanceServerInfo(ip, rawInfo) ==
    [ip |-> ip, version |-> rawInfo.version, online |-> rawInfo.online]

\* passesFilters without its maxPlayers test
passesFiltersNoMax(cfg, serverInfo) ==
    IF ~IsNull(cfg.versionFilter) /\ serverInfo.version \notin Val(cfg.versionFilter)
    THEN FALSE
    ELSE IF serverInfo.online < cfg.minPlayers
    THEN FALSE
    ELSE TRUE

passesFilters(cfg, serverInfo) ==
    IF ~IsNull(cfg.versionFilter) /\ serverInfo.version \notin Val(cfg.versionFilter)
    THEN FALSE
    ELSE IF serverInfo.online < cfg.minPlayers
    THEN FALSE
    ELSE IF serverInfo.online > ToNumber(cfg.maxPlayers)
    THEN FALSE
    ELSE TRUE

-----------------------------------------------------------------------------
(* Rate limiter *)

isRateLimited(rl, ip, t) ==
    LET subnet == Subnet(ip)
    IN  /\ subnet \in DOMAIN rl
        /\ rl[subnet] # 0
        /\ t - rl[subnet] < RateLimitMs

updateRateLimit(rl, ip, t) ==
    LET subnet == Subnet(ip)
    IN  [s \in DOMAIN rl \cup {subnet} |-> IF s = subnet THEN t ELSE rl[s]]

cleanupRateLimiter(rl, t) ==
    LET keep == {s \in DOMAIN rl : ~(t - rl[s] > CleanupAgeMs)}
    IN  [s \in keep |-> rl[s]]

-----------------------------------------------------------------------------
(* Address generator: the set of values each strategy can return, each     *)
(* tagged with the function that produced it.                              *)

Cand(ip, strategy) == [ip |-> ip, strategy |-> strategy]

generateRandomPublicIP ==
    { Cand(ip, "random") : ip \in
        { r \in RandomSample :
            ~(~isPublicIP(r) \/ r \in ipBlacklist \/ CacheHas(serverCache, r)) } }

generateClusterBasedIP ==
    IF ~IsNull(stats.lastFoundServer)
    THEN LET parts == Val(stats.lastFoundServer).ip
         IN  { Cand(<<parts[1], parts[2], parts[3], h>>, "cluster") : h \in HostSample }
    ELSE generateRandomPublicIP

generatePopularRangeIP ==
    { Cand(generateIPFromRange(popularRanges[i], h), "popular") :
        i \in 1..Min(MaxRangeIdx, Len(popularRanges)), h \in HostSample }

generateSmartIP ==
    generateRandomPublicIP \cup generateClusterBasedIP \cup generatePopularRangeIP

-----------------------------------------------------------------------------
(* Probe tasks.  pc is the await the task is suspended at:                 *)
(*   "delay100"  checkMinecraftServer: await this.delay(100)               *)
(*   "ping"      checkMinecraftServer: await this.performServerPing(ip)    *)
(*   "dns"       enhanceServerInfo: await this.getServerLocation(ip)       *)
(*   "backoff"   checkMinecraftServer: await this.delay(500 * (retry + 1)) *)
(*   "append"    saveServer: await fs.appendFile(...)                      *)
(*   "jsonread"  saveServer: await this.loadJSONFile(jsonFile)             *)
(*   "jsonwrite" saveServer: await fs.writeFile(jsonFile, ...)             *)
(*   "done"      the scanSingleServer promise has settled                  *)

(* startTime is checkMinecraftServer's local of that name, live while the  *)
(* ping is awaited; outcome records how a settled task ended.              *)

Task(ip, taskPc, retry, wake, startTime) ==
    [ip |-> ip, pc |-> taskPc, retry |-> retry, wake |-> wake,
     startTime |-> startTime, info |-> Null, existing |-> <<>>,
     outcome |-> "none"]

Settled(task, outcome) ==
    [task EXCEPT !.pc = "done", !.wake = 0, !.startTime = 0, !.info = Null,
                 !.existing = <<>>, !.outcome = outcome]

InFlight == {t \in 1..Len(tasks) : tasks[t].pc # "done"}

\* checkMinecraftServer, lines 402-411: what a call does before its try block
Admission(ip, retryCount) ==
    IF retryCount >= config.maxRetries THEN "blacklist"
    ELSE IF isRateLimited(rateLimiter, ip, now) THEN "limited"
    ELSE "connect"

\* performScanBatch: the check that skips a drawn address
BatchSkips(ip) == CacheHas(serverCache, ip)

\* scanSingleServer without its totalScanned++
CountScannedForgotten(n) == n

\* scanSingleServer: this.stats.totalScanned++
CountScanned(n) == n + 1

-----------------------------------------------------------------------------
(* Initial state: after the constructor and initialize() *)

InitWith(cfgs, files, prevs, startTime) ==
    \E cfg \in cfgs, file \in files, prev \in prevs :
        /\ config = loadConfiguration(cfg, file)
        /\ serverCache = IF prev.exists THEN prev.ips ELSE <<>>
        /\ stats = [ totalScanned      |-> 0,
                     totalFound        |-> IF prev.exists THEN prev.totalFound ELSE 0,
                     duplicatesSkipped |-> 0,
                     errorsEncountered |-> 0,
                     connectionErrors  |-> 0,
                     activeConnections |-> 0,
                     lastFoundServer   |-> Null,
                     serversByVersion  |->
                         IF prev.exists THEN prev.serversByVersion ELSE <<>> ]
        /\ foundAtStart = IF prev.exists THEN prev.totalFound ELSE 0
        /\ ipBlacklist = {}
        /\ rateLimiter = <<>>
        /\ catalog = <<>>
        /\ jsonFile = <<>>
        /\ emitted = <<>>
        /\ tasks = <<>>
        /\ pc = "loop"
        /\ batchIndex = 0
        /\ candidate = Null
        /\ loopWake = 0
        /\ now = startTime
        /\ scannedDiscarded = 0
        /\ resets = 0
        /\ isPaused = FALSE
        /\ shouldStop = FALSE
        /\ isRunning = TRUE
        /\ stopPc = "idle"
        /\ sessionStats = Null
        /\ summaries = <<>>
        /\ shutdownEvents = 0
        /\ pauses = 0
        /\ socket = "connecting"
        /\ hasResponded = FALSE
        /\ timeoutArmed = TRUE
        /\ responseBuffer = <<>>
        /\ resolved = <<>>
        /\ closePending = FALSE
        /\ timedOut = FALSE
        /\ faults = 0

\* no function is applied on its own during a session
NoCall ==
    /\ call = "none"
    /\ arg = Null
    /\ result = Null

Init == InitWith(Configs, ConfigFiles, PreviousSessions, Tick) /\ NoCall

-----------------------------------------------------------------------------
(* Dispatcher: startScanning and performScanBatch *)

\* saveProgress: the statistics that JSON.stringify serializes for
\* session-stats.json
statsData(st) ==
    [totalScanned |-> st.totalScanned, totalFound |-> st.totalFound]

\* exportResults: scanInfo of the summary report
summary(st) ==
    [totalScanned |-> st.totalScanned, totalFound |-> st.totalFound]

\* the while guard leaving the loop one scan before the cap
LoopGuardEarly ==
    /\ isRunning
    /\ ~shouldStop
    /\ stats.totalScanned + 1 < ToNumber(config.maxScans)

\* the while guard without its isRunning and shouldStop tests
LoopGuardIgnoresStop ==
    stats.totalScanned < ToNumber(config.maxScans)

\* startScanning: the while guard
LoopGuard ==
    /\ isRunning
    /\ ~shouldStop
    /\ stats.totalScanned < ToNumber(config.maxScans)

\* a while loop whose body does not test isPaused
LoopEnterIgnoresPause ==
    /\ pc = "loop"
    /\ now >= loopWake
    /\ IF LoopGuard
       THEN /\ IF FALSE
               THEN /\ pc' = "loop"
                    /\ loopWake' = now + PauseDelayMs
                    /\ UNCHANGED <<batchIndex, tasks>>
               ELSE /\ pc' = "draw"
                    /\ batchIndex' = 0
                    /\ tasks' = <<>>
                    /\ UNCHANGED loopWake
            /\ UNCHANGED <<isRunning, sessionStats>>
       ELSE /\ pc' = "saving"
            /\ isRunning' = FALSE
            /\ sessionStats' = Some(statsData(stats))
            /\ UNCHANGED <<batchIndex, tasks, loopWake>>
    /\ candidate' = Null
    /\ UNCHANGED <<faults, callVars, pingVars, config, stats, serverCache, ipBlacklist, rateLimiter, catalog,
                   jsonFile, emitted, now, foundAtStart, scannedDiscarded, resets,
                   isPaused, shouldStop, stopPc, summaries, shutdownEvents,
                   pauses>>

\* startScanning: one evaluation of the while guard.  The loop body sleeps while paused and
\* otherwise starts a batch; the exit calls shutdown(), which runs to the
\* first file write of saveProgress
LoopEnter ==
    /\ pc = "loop"
    /\ now >= loopWake
    /\ IF LoopGuard
       THEN /\ IF isPaused
               THEN /\ pc' = "loop"
                    /\ loopWake' = now + PauseDelayMs
                    /\ UNCHANGED <<batchIndex, tasks>>
               ELSE /\ pc' = "draw"
                    /\ batchIndex' = 0
                    /\ tasks' = <<>>
                    /\ UNCHANGED loopWake
            /\ UNCHANGED <<isRunning, sessionStats>>
       ELSE /\ pc' = "saving"
            /\ isRunning' = FALSE
            /\ sessionStats' = Some(statsData(stats))
            /\ UNCHANGED <<batchIndex, tasks, loopWake>>
    /\ candidate' = Null
    /\ UNCHANGED <<faults, callVars, pingVars, config, stats, serverCache, ipBlacklist, rateLimiter, catalog,
                   jsonFile, emitted, now, foundAtStart, scannedDiscarded, resets,
                   isPaused, shouldStop, stopPc, summaries, shutdownEvents,
                   pauses>>

\* shutdown() of the dispatcher: saveProgress returned, exportResults builds
\* the summary and starts writing it
LoopShutdownSaved ==
    /\ pc = "saving"
    /\ pc' = "exporting"
    /\ summaries' = Append(summaries, summary(stats))
    /\ UNCHANGED <<faults, callVars, pingVars, config, stats, serverCache, ipBlacklist, rateLimiter, catalog,
                   jsonFile, emitted, tasks, batchIndex, candidate, loopWake, now,
                   foundAtStart, scannedDiscarded, resets, isPaused, shouldStop,
                   isRunning, stopPc, sessionStats, shutdownEvents, pauses>>

\* shutdown() of the dispatcher: exportResults returned, emit('shutdown')
LoopShutdownExported ==
    /\ pc = "exporting"
    /\ pc' = "done"
    /\ shutdownEvents' = shutdownEvents + 1
    /\ UNCHANGED <<faults, callVars, pingVars, config, stats, serverCache, ipBlacklist, rateLimiter, catalog,
                   jsonFile, emitted, tasks, batchIndex, candidate, loopWake, now,
                   foundAtStart, scannedDiscarded, resets, isPaused, shouldStop,
                   isRunning, stopPc, sessionStats, summaries, pauses>>

\* performScanBatch: one iteration of the for loop, including the
\* synchronous start of scanSingleServer(ip) / checkMinecraftServer(ip, 0)
Draw ==
    /\ pc = "draw"
    /\ batchIndex < config.batchSize
    /\ stats.activeConnections < config.maxConcurrent
    /\ \E c \in generateSmartIP :
        /\ candidate' = Some(c)
        /\ batchIndex' = batchIndex + 1
        /\ IF BatchSkips(c.ip)
           THEN UNCHANGED <<stats, ipBlacklist, tasks>>
           ELSE LET adm == Admission(c.ip, 0)
                IN  /\ stats' = [stats EXCEPT
                          !.totalScanned = CountScanned(@),
                          !.activeConnections = IF adm = "connect" THEN @ + 1 ELSE @]
                    /\ ipBlacklist' = IF adm = "blacklist"
                                      THEN ipBlacklist \cup {c.ip} ELSE ipBlacklist
                    /\ tasks' = Append(tasks,
                          CASE adm = "blacklist" ->
                                 Settled(Task(c.ip, "done", 0, 0, 0), "exhausted")
                            [] adm = "limited" ->
                                 Task(c.ip, "delay100", 0, now + RateLimitedDelayMs, 0)
                            [] adm = "connect" ->
                                 Task(c.ip, "ping", 0, 0, now))
    /\ UNCHANGED <<faults, callVars, pingVars, controlVars, config, serverCache, rateLimiter, catalog, jsonFile, emitted,
                   pc, loopWake, now, foundAtStart, scannedDiscarded, resets>>

\* performScanBatch: the for loop ends; await Promise.allSettled(batchPromises)
DrawEnd ==
    /\ pc = "draw"
    /\ ~(batchIndex < config.batchSize
         /\ stats.activeConnections < config.maxConcurrent)
    /\ pc' = "await"
    /\ candidate' = Null
    /\ UNCHANGED <<faults, callVars, pingVars, controlVars, config, stats, serverCache, ipBlacklist, rateLimiter, catalog,
                   jsonFile, emitted, tasks, batchIndex, loopWake, now,
                   foundAtStart, scannedDiscarded, resets>>

\* performMaintenance: the rate-limiter reap and the seen-set trim
MaintainedLimiter == cleanupRateLimiter(rateLimiter, now)

\* cacheArray.slice(-count)
SliceLast(cacheArray, count) ==
    SubSeq(cacheArray,
           IF Len(cacheArray) > count THEN Len(cacheArray) - count + 1 ELSE 1,
           Len(cacheArray))

\* items.forEach(ip => this.serverCache.add(ip))
RECURSIVE AddAll(_, _)
AddAll(cache, items) ==
    IF items = <<>> THEN cache
    ELSE AddAll(CacheAdd(cache, Head(items)), Tail(items))

\* a trim that keeps the oldest entries: cacheArray.slice(0, keep)
TrimCacheKeepsOldest(cache, above, keep) ==
    IF Len(cache) > above
    THEN AddAll(<<>>, SubSeq(cache, 1, Min(keep, Len(cache))))
    ELSE cache

\* performMaintenance: the seen-set trim, for the thresholds above and keep
TrimCache(cache, above, keep) ==
    IF Len(cache) > above
    THEN AddAll(<<>>, SliceLast(cache, keep))
    ELSE cache

MaintainedCache == TrimCache(serverCache, TrimAbove, TrimKeep)

\* a dispatcher that resumes as soon as one probe of the batch has settled
\* (Promise.race in place of Promise.allSettled)
BatchSettledOnFirst ==
    /\ pc = "await"
    /\ \/ tasks = <<>>
       \/ \E t \in 1..Len(tasks) : tasks[t].pc = "done"
    /\ IF stats.totalScanned % MaintenanceEvery = 0
       THEN /\ rateLimiter' = MaintainedLimiter
            /\ serverCache' = MaintainedCache
       ELSE UNCHANGED <<rateLimiter, serverCache>>
    /\ pc' = "loop"
    /\ loopWake' = now + LoopDelayMs
    /\ UNCHANGED <<faults, callVars, pingVars, controlVars, config, stats, tasks, ipBlacklist, catalog, jsonFile, emitted,
                   batchIndex, candidate, now, foundAtStart, scannedDiscarded,
                   resets>>

\* startScanning: the batch has settled; maintenance when due; await delay(10)
BatchSettled ==
    /\ pc = "await"
    /\ InFlight = {}
    /\ IF stats.totalScanned % MaintenanceEvery = 0
       THEN /\ rateLimiter' = MaintainedLimiter
            /\ serverCache' = MaintainedCache
       ELSE UNCHANGED <<rateLimiter, serverCache>>
    /\ pc' = "loop"
    /\ loopWake' = now + LoopDelayMs
    /\ tasks' = <<>>
    /\ UNCHANGED <<faults, callVars, pingVars, controlVars, config, stats, ipBlacklist, catalog, jsonFile, emitted,
                   batchIndex, candidate, now, foundAtStart, scannedDiscarded,
                   resets>>

-----------------------------------------------------------------------------
(* Probe task: checkMinecraftServer, enhanceServerInfo, saveServer and the *)
(* tail of scanSingleServer                                                *)

\* checkMinecraftServer's finally block
Finally(st) == [st EXCEPT !.activeConnections = @ - 1]

\* updateServerStats: the fields of the statistics record that are modelled
updateServerStats(st, serverInfo) ==
    LET byVersion == st.serversByVersion
        versionCount == IF serverInfo.version \in DOMAIN byVersion
                        THEN byVersion[serverInfo.version] ELSE 0
    IN  [st EXCEPT
           !.serversByVersion =
               [v \in DOMAIN byVersion \cup {serverInfo.version} |->
                   IF v = serverInfo.version THEN versionCount + 1 ELSE byVersion[v]],
           !.lastFoundServer = Some(serverInfo)]

\* scanSingleServer after `await this.saveServer(serverInfo)`
CountFound(st) == [st EXCEPT !.totalFound = @ + 1]

\* performServerPing resolved null: connect error, reset, timeout, write
\* failure or an unparsable response
PingNoResponse(t) ==
    /\ pc # "draw"
    /\ t \in 1..Len(tasks)
    /\ tasks[t].pc = "ping"
    /\ stats' = Finally(stats)
    /\ rateLimiter' = updateRateLimit(rateLimiter, tasks[t].ip, now)
    /\ tasks' = [tasks EXCEPT ![t] = Settled(@, "noresponse")]
    /\ UNCHANGED <<faults, callVars, pingVars, controlVars, config, serverCache, ipBlacklist, catalog, jsonFile, emitted,
                   pc, batchIndex, candidate, loopWake, now, foundAtStart,
                   scannedDiscarded, resets>>

\* performServerPing resolved the parsed status; enhanceServerInfo starts.
\* If building the enhanced record throws, the catch block counts a
\* connection error and awaits the backoff delay.
PingServer(t) ==
    /\ pc # "draw"
    /\ t \in 1..Len(tasks)
    /\ tasks[t].pc = "ping"
    /\ IF ServerAt(tasks[t].ip).throws
       THEN IF tasks[t].retry < config.maxRetries
            THEN /\ stats' = [stats EXCEPT !.connectionErrors = @ + 1]
                 /\ tasks' = [tasks EXCEPT ![t] =
                        [@ EXCEPT !.pc = "backoff", !.startTime = 0,
                                  !.wake = now + RetryDelayMs * (tasks[t].retry + 1)]]
                 /\ UNCHANGED rateLimiter
            ELSE /\ stats' = Finally([stats EXCEPT !.connectionErrors = @ + 1])
                 /\ rateLimiter' = updateRateLimit(rateLimiter, tasks[t].ip, now)
                 /\ tasks' = [tasks EXCEPT ![t] = Settled(@, "threw")]
       ELSE /\ tasks' = [tasks EXCEPT ![t] =
                   [@ EXCEPT !.pc = "dns", !.startTime = 0,
                             !.info = Some(enhanceServerInfo(tasks[t].ip, ServerAt(tasks[t].ip)))]]
            /\ UNCHANGED <<stats, rateLimiter>>
    /\ UNCHANGED <<faults, callVars, pingVars, controlVars, config, serverCache, ipBlacklist, catalog, jsonFile, emitted,
                   pc, batchIndex, candidate, loopWake, now, foundAtStart,
                   scannedDiscarded, resets>>

\* getServerLocation returned: passesFilters, the finally block, and for a
\* server that passes, scanSingleServer calls saveServer up to fs.appendFile
DnsDone(t) ==
    /\ pc # "draw"
    /\ t \in 1..Len(tasks)
    /\ tasks[t].pc = "dns"
    /\ stats' = Finally(stats)
    /\ rateLimiter' = updateRateLimit(rateLimiter, tasks[t].ip, now)
    /\ tasks' = [tasks EXCEPT ![t] =
           IF passesFilters(config, Val(tasks[t].info))
           THEN [@ EXCEPT !.pc = "append"]
           ELSE Settled(@, "filtered")]
    /\ UNCHANGED <<faults, callVars, pingVars, controlVars, config, serverCache, ipBlacklist, catalog, jsonFile, emitted,
                   pc, batchIndex, candidate, loopWake, now, foundAtStart,
                   scannedDiscarded, resets>>

\* a retry that does not wait for its backoff delay
BackoffSkipped(t) ==
    /\ pc # "draw"
    /\ t \in 1..Len(tasks)
    /\ tasks[t].pc = "backoff"
    /\ LET ip == tasks[t].ip
           retry == tasks[t].retry + 1
           adm == Admission(ip, retry)
       IN  /\ ipBlacklist' = IF adm = "blacklist"
                             THEN ipBlacklist \cup {ip} ELSE ipBlacklist
           /\ stats' = Finally([stats EXCEPT !.activeConnections =
                                    IF adm = "connect" THEN @ + 1 ELSE @])
           /\ rateLimiter' = updateRateLimit(rateLimiter, ip, now)
           /\ tasks' = [tasks EXCEPT ![t] =
                  CASE adm = "blacklist" -> Settled(@, "exhausted")
                    [] adm = "limited" ->
                         [@ EXCEPT !.pc = "delay100", !.retry = retry,
                                   !.wake = now + RateLimitedDelayMs]
                    [] adm = "connect" ->
                         [@ EXCEPT !.pc = "ping", !.retry = retry, !.wake = 0,
                                   !.startTime = now]]
    /\ UNCHANGED <<faults, callVars, pingVars, controlVars, config, serverCache, catalog, jsonFile, emitted, pc,
                   batchIndex, candidate, loopWake, now, foundAtStart,
                   scannedDiscarded, resets>>

\* the backoff delay ended: the recursive checkMinecraftServer(ip, retry + 1)
\* runs to its first await, then the finally block of the outer call runs
BackoffDone(t) ==
    /\ pc # "draw"
    /\ t \in 1..Len(tasks)
    /\ tasks[t].pc = "backoff"
    /\ now >= tasks[t].wake
    /\ LET ip == tasks[t].ip
           retry == tasks[t].retry + 1
           adm == Admission(ip, retry)
       IN  /\ ipBlacklist' = IF adm = "blacklist"
                             THEN ipBlacklist \cup {ip} ELSE ipBlacklist
           /\ stats' = Finally([stats EXCEPT !.activeConnections =
                                    IF adm = "connect" THEN @ + 1 ELSE @])
           /\ rateLimiter' = updateRateLimit(rateLimiter, ip, now)
           /\ tasks' = [tasks EXCEPT ![t] =
                  CASE adm = "blacklist" -> Settled(@, "exhausted")
                    [] adm = "limited" ->
                         [@ EXCEPT !.pc = "delay100", !.retry = retry,
                                   !.wake = now + RateLimitedDelayMs]
                    [] adm = "connect" ->
                         [@ EXCEPT !.pc = "ping", !.retry = retry, !.wake = 0,
                                   !.startTime = now]]
    /\ UNCHANGED <<faults, callVars, pingVars, controlVars, config, serverCache, catalog, jsonFile, emitted, pc,
                   batchIndex, candidate, loopWake, now, foundAtStart,
                   scannedDiscarded, resets>>

\* the delay(100) of a rate-limited check ended: it returns null
DelayDone(t) ==
    /\ pc # "draw"
    /\ t \in 1..Len(tasks)
    /\ tasks[t].pc = "delay100"
    /\ now >= tasks[t].wake
    /\ tasks' = [tasks EXCEPT ![t] = Settled(@, "ratelimited")]
    /\ UNCHANGED <<faults, callVars, pingVars, controlVars, config, stats, serverCache, ipBlacklist, rateLimiter, catalog,
                   jsonFile, emitted, pc, batchIndex, candidate, loopWake, now,
                   foundAtStart, scannedDiscarded, resets>>

\* saveServer after its last successful write, then the tail of
\* scanSingleServer
Saved(t) ==
    LET serverInfo == Val(tasks[t].info)
    IN  /\ serverCache' = CacheAdd(serverCache, serverInfo.ip)
        /\ stats' = CountFound(updateServerStats(stats, serverInfo))
        /\ emitted' = Append(emitted, serverInfo)
        /\ tasks' = [tasks EXCEPT ![t] = Settled(@, "found")]

\* a saveServer whose catch block inserts the address into the seen-set
SaveFailedCachesAddress(t) ==
    /\ stats' = CountFound(stats)
    /\ emitted' = Append(emitted, Val(tasks[t].info))
    /\ tasks' = [tasks EXCEPT ![t] = Settled(@, "savefailed")]
    /\ serverCache' = CacheAdd(serverCache, tasks[t].ip)

\* a saveServer whose failure rejects the whole batch: every other probe is
\* abandoned
SaveFailedAbortsBatch(t) ==
    /\ stats' = CountFound(stats)
    /\ emitted' = Append(emitted, Val(tasks[t].info))
    /\ tasks' = [u \in DOMAIN tasks |->
                    IF u = t THEN Settled(tasks[u], "savefailed")
                    ELSE Settled(tasks[u], "aborted")]
    /\ UNCHANGED serverCache

\* saveServer's catch block (the failure is logged), then the tail of
\* scanSingleServer
SaveFailed(t) ==
    /\ stats' = CountFound(stats)
    /\ emitted' = Append(emitted, Val(tasks[t].info))
    /\ tasks' = [tasks EXCEPT ![t] = Settled(@, "savefailed")]
    /\ UNCHANGED serverCache

\* fs.appendFile settled
AppendDone(t, ok) ==
    /\ pc # "draw"
    /\ t \in 1..Len(tasks)
    /\ tasks[t].pc = "append"
    /\ IF ok
       THEN /\ catalog' = Append(catalog, Val(tasks[t].info))
            /\ IF config.exportJson
               THEN /\ tasks' = [tasks EXCEPT ![t] = [@ EXCEPT !.pc = "jsonread"]]
                    /\ UNCHANGED <<serverCache, stats, emitted>>
               ELSE Saved(t)
       ELSE /\ SaveFailed(t)
            /\ UNCHANGED catalog
    /\ UNCHANGED <<faults, callVars, pingVars, controlVars, config, ipBlacklist, rateLimiter, jsonFile, pc, batchIndex,
                   candidate, loopWake, now, foundAtStart, scannedDiscarded,
                   resets>>

\* loadJSONFile returned; the server is pushed and fs.writeFile is started
JsonReadDone(t) ==
    /\ pc # "draw"
    /\ t \in 1..Len(tasks)
    /\ tasks[t].pc = "jsonread"
    /\ tasks' = [tasks EXCEPT ![t] =
           [@ EXCEPT !.pc = "jsonwrite",
                     !.existing = Append(jsonFile, Val(tasks[t].info))]]
    /\ UNCHANGED <<faults, callVars, pingVars, controlVars, config, stats, serverCache, ipBlacklist, rateLimiter, catalog,
                   jsonFile, emitted, pc, batchIndex, candidate, loopWake, now,
                   foundAtStart, scannedDiscarded, resets>>

\* fs.writeFile of the JSON catalog settled
JsonWriteDone(t, ok) ==
    /\ pc # "draw"
    /\ t \in 1..Len(tasks)
    /\ tasks[t].pc = "jsonwrite"
    /\ IF ok
       THEN /\ jsonFile' = tasks[t].existing
            /\ Saved(t)
       ELSE /\ SaveFailed(t)
            /\ UNCHANGED jsonFile
    /\ UNCHANGED <<faults, callVars, pingVars, controlVars, config, ipBlacklist, rateLimiter, catalog, pc, batchIndex,
                   candidate, loopWake, now, foundAtStart, scannedDiscarded,
                   resets>>

-----------------------------------------------------------------------------
(* Control surface and clock *)

\* resetStats() that zeroes totalFound and the per-version counts as well
ResetStatsAll ==
    /\ pc \notin {"draw", "done"}
    /\ resets < MaxResets
    /\ stats' = [ totalScanned      |-> 0,
                  totalFound        |-> 0,
                  duplicatesSkipped |-> 0,
                  errorsEncountered |-> 0,
                  connectionErrors  |-> 0,
                  activeConnections |-> 0,
                  lastFoundServer   |-> Null,
                  serversByVersion  |-> <<>> ]
    /\ scannedDiscarded' = scannedDiscarded + stats.totalScanned
    /\ resets' = resets + 1
    /\ UNCHANGED <<faults, callVars, pingVars, controlVars, config, serverCache, ipBlacklist, rateLimiter,
                   catalog, jsonFile, emitted, tasks, pc, batchIndex, candidate,
                   loopWake, now, foundAtStart>>

\* resetStats(), from the 'r' keypress handler
ResetStats ==
    /\ pc \notin {"draw", "done"}
    /\ resets < MaxResets
    /\ stats' = [ totalScanned      |-> 0,
                  totalFound        |-> stats.totalFound,
                  duplicatesSkipped |-> 0,
                  errorsEncountered |-> 0,
                  connectionErrors  |-> 0,
                  activeConnections |-> 0,
                  lastFoundServer   |-> Null,
                  serversByVersion  |-> stats.serversByVersion ]
    /\ scannedDiscarded' = scannedDiscarded + stats.totalScanned
    /\ resets' = resets + 1
    /\ UNCHANGED <<faults, callVars, pingVars, controlVars, config, serverCache, ipBlacklist, rateLimiter, catalog,
                   jsonFile, emitted, tasks, pc, batchIndex, candidate, loopWake,
                   now, foundAtStart>>

\* pause(), from the 'p' keypress handler
Pause ==
    /\ pc \notin {"draw", "done"}
    /\ ~isPaused
    /\ pauses < MaxPauses
    /\ isPaused' = TRUE
    /\ pauses' = pauses + 1
    /\ UNCHANGED <<faults, callVars, pingVars, config, stats, serverCache, ipBlacklist, rateLimiter, catalog,
                   jsonFile, emitted, tasks, pc, batchIndex, candidate, loopWake,
                   now, foundAtStart, scannedDiscarded, resets, shouldStop,
                   isRunning, stopPc, sessionStats, summaries, shutdownEvents>>

\* resume(), from the 'p' keypress handler
Resume ==
    /\ pc \notin {"draw", "done"}
    /\ isPaused
    /\ isPaused' = FALSE
    /\ UNCHANGED <<faults, callVars, pingVars, config, stats, serverCache, ipBlacklist, rateLimiter, catalog,
                   jsonFile, emitted, tasks, pc, batchIndex, candidate, loopWake,
                   now, foundAtStart, scannedDiscarded, resets, shouldStop,
                   isRunning, stopPc, sessionStats, summaries, shutdownEvents,
                   pauses>>

\* stop(), from the 'q' keypress handler: shouldStop = true, then shutdown()
\* runs to the first file write of saveProgress
Stop ==
    /\ pc # "draw"
    /\ stopPc = "idle"
    /\ shouldStop' = TRUE
    /\ isRunning' = FALSE
    /\ sessionStats' = Some(statsData(stats))
    /\ stopPc' = "saving"
    /\ UNCHANGED <<faults, callVars, pingVars, config, stats, serverCache, ipBlacklist, rateLimiter, catalog,
                   jsonFile, emitted, tasks, pc, batchIndex, candidate, loopWake,
                   now, foundAtStart, scannedDiscarded, resets, isPaused,
                   summaries, shutdownEvents, pauses>>

\* shutdown() of stop(): saveProgress returned, exportResults builds the
\* summary and starts writing it
StopShutdownSaved ==
    /\ pc # "draw"
    /\ stopPc = "saving"
    /\ stopPc' = "exporting"
    /\ summaries' = Append(summaries, summary(stats))
    /\ UNCHANGED <<faults, callVars, pingVars, config, stats, serverCache, ipBlacklist, rateLimiter, catalog,
                   jsonFile, emitted, tasks, pc, batchIndex, candidate, loopWake,
                   now, foundAtStart, scannedDiscarded, resets, isPaused,
                   shouldStop, isRunning, sessionStats, shutdownEvents, pauses>>

\* shutdown() of stop(): exportResults returned, emit('shutdown')
StopShutdownExported ==
    /\ pc # "draw"
    /\ stopPc = "exporting"
    /\ stopPc' = "done"
    /\ shutdownEvents' = shutdownEvents + 1
    /\ UNCHANGED <<faults, callVars, pingVars, config, stats, serverCache, ipBlacklist, rateLimiter, catalog,
                   jsonFile, emitted, tasks, pc, batchIndex, candidate, loopWake,
                   now, foundAtStart, scannedDiscarded, resets, isPaused,
                   shouldStop, isRunning, sessionStats, summaries, pauses>>

\* time passes between handlers
TickClock ==
    /\ pc \notin {"draw", "done"}
    /\ now < Tick * (MaxTicks + 1)
    /\ now' = now + Tick
    /\ UNCHANGED <<faults, callVars, pingVars, controlVars, config, stats, serverCache, ipBlacklist, rateLimiter, catalog,
                   jsonFile, emitted, tasks, pc, batchIndex, candidate, loopWake,
                   foundAtStart, scannedDiscarded, resets>>

-----------------------------------------------------------------------------

TaskIds == 1..BatchSize

Next ==
    \/ LoopEnter
    \/ Draw
    \/ DrawEnd
    \/ BatchSettled
    \/ LoopShutdownSaved
    \/ LoopShutdownExported
    \/ \E t \in TaskIds : PingNoResponse(t)
    \/ \E t \in TaskIds : PingServer(t)
    \/ \E t \in TaskIds : DnsDone(t)
    \/ \E t \in TaskIds : BackoffDone(t)
    \/ \E t \in TaskIds : DelayDone(t)
    \/ \E t \in TaskIds, ok \in BOOLEAN : AppendDone(t, ok)
    \/ \E t \in TaskIds : JsonReadDone(t)
    \/ \E t \in TaskIds, ok \in BOOLEAN : JsonWriteDone(t, ok)
    \/ ResetStats
    \/ TickClock

Spec == Init /\ [][Next]_vars

-----------------------------------------------------------------------------
(* Sessions with the whole control surface (pause, resume, stop, reset) and *)
(* a clock that never stops.  Handlers that are ready run eventually:      *)
(* Node.js serves every settled promise, expired timer and finished I/O    *)
(* request; key presses are under no obligation.                           *)

Earlier(t) == IF t > Tick THEN t - Tick ELSE 0

\* the clock read at its horizon, where it has run for longer than every
\* delay and rate-limit window of the program
Horizon == Tick * (MaxTicks + 1)

\* time passes at the horizon of the clock: every stored time moves one
\* tick into the past instead
ClockRebase ==
    /\ pc \notin {"draw", "done"}
    /\ now = Horizon
    /\ loopWake' = Earlier(loopWake)
    /\ rateLimiter' = [sn \in DOMAIN rateLimiter |-> Earlier(rateLimiter[sn])]
    /\ tasks' = [t \in DOMAIN tasks |->
                    [tasks[t] EXCEPT !.wake = Earlier(@), !.startTime = Earlier(@)]]
    /\ UNCHANGED <<faults, callVars, pingVars, controlVars, config, stats, serverCache, ipBlacklist, catalog,
                   jsonFile, emitted, pc, batchIndex, candidate, now,
                   foundAtStart, scannedDiscarded, resets>>

ControlInit ==
    /\ InitWith({JsonConfig}, {Null}, {p \in PreviousSessions : ~p.exists}, Horizon)
    /\ NoCall

ControlNext ==
    \/ LoopEnter
    \/ Draw
    \/ DrawEnd
    \/ BatchSettled
    \/ LoopShutdownSaved
    \/ LoopShutdownExported
    \/ \E t \in TaskIds : PingNoResponse(t)
    \/ \E t \in TaskIds : PingServer(t)
    \/ \E t \in TaskIds : DnsDone(t)
    \/ \E t \in TaskIds : BackoffDone(t)
    \/ \E t \in TaskIds : DelayDone(t)
    \/ \E t \in TaskIds, ok \in BOOLEAN : AppendDone(t, ok)
    \/ \E t \in TaskIds : JsonReadDone(t)
    \/ \E t \in TaskIds, ok \in BOOLEAN : JsonWriteDone(t, ok)
    \/ ClockRebase
    \/ Pause
    \/ Resume
    \/ Stop
    \/ StopShutdownSaved
    \/ StopShutdownExported

Fairness ==
    /\ WF_vars(LoopEnter)
    /\ WF_vars(Draw)
    /\ WF_vars(DrawEnd)
    /\ WF_vars(BatchSettled)
    /\ WF_vars(LoopShutdownSaved)
    /\ WF_vars(LoopShutdownExported)
    /\ WF_vars(StopShutdownSaved)
    /\ WF_vars(StopShutdownExported)
    /\ WF_vars(ClockRebase)
    /\ \A t \in TaskIds :
        /\ WF_vars(PingNoResponse(t) \/ PingServer(t))
        /\ WF_vars(DnsDone(t))
        /\ WF_vars(BackoffDone(t))
        /\ WF_vars(DelayDone(t))
        /\ WF_vars(\E ok \in BOOLEAN : AppendDone(t, ok))
        /\ WF_vars(JsonReadDone(t))
        /\ WF_vars(\E ok \in BOOLEAN : JsonWriteDone(t, ok))

ControlSpec == ControlInit /\ [][ControlNext]_vars /\ Fairness

\* sessions that export the text catalog only and probe one address at a
\* time, under the same control surface
LiveInit ==
    /\ InitWith({[DefaultConfig EXCEPT !.maxConcurrent = 1]}, {Null},
                {p \in PreviousSessions : ~p.exists}, Horizon)
    /\ NoCall

LiveNext ==
    \/ LoopEnter
    \/ Draw
    \/ DrawEnd
    \/ BatchSettled
    \/ LoopShutdownSaved
    \/ LoopShutdownExported
    \/ \E t \in TaskIds : PingNoResponse(t)
    \/ \E t \in TaskIds : PingServer(t)
    \/ \E t \in TaskIds : DnsDone(t)
    \/ \E t \in TaskIds : BackoffDone(t)
    \/ \E t \in TaskIds : DelayDone(t)
    \/ \E t \in TaskIds, ok \in BOOLEAN : AppendDone(t, ok)
    \/ ClockRebase
    \/ Pause
    \/ Resume
    \/ Stop
    \/ StopShutdownSaved
    \/ StopShutdownExported

LiveSpec == LiveInit /\ [][LiveNext]_vars /\ Fairness

\* the same sessions without the control surface, where the resolver may
\* leave dns.reverse pending for ever: the socket timers, the delays and the
\* file writes complete, but nothing in enhanceServerInfo or
\* getServerLocation puts a deadline on the lookup
LookupNext ==
    \/ LoopEnter
    \/ Draw
    \/ DrawEnd
    \/ BatchSettled
    \/ LoopShutdownSaved
    \/ LoopShutdownExported
    \/ \E t \in TaskIds : PingNoResponse(t)
    \/ \E t \in TaskIds : PingServer(t)
    \/ \E t \in TaskIds : DnsDone(t)
    \/ \E t \in TaskIds : BackoffDone(t)
    \/ \E t \in TaskIds : DelayDone(t)
    \/ \E t \in TaskIds, ok \in BOOLEAN : AppendDone(t, ok)
    \/ ClockRebase

LookupFairness ==
    /\ WF_vars(LoopEnter)
    /\ WF_vars(Draw)
    /\ WF_vars(DrawEnd)
    /\ WF_vars(BatchSettled)
    /\ WF_vars(LoopShutdownSaved)
    /\ WF_vars(LoopShutdownExported)
    /\ WF_vars(ClockRebase)
    /\ \A t \in TaskIds :
        /\ WF_vars(PingNoResponse(t) \/ PingServer(t))
        /\ WF_vars(BackoffDone(t))
        /\ WF_vars(DelayDone(t))
        /\ WF_vars(\E ok \in BOOLEAN : AppendDone(t, ok))

LookupSpec == LiveInit /\ [][LookupNext]_vars /\ LookupFairness

-----------------------------------------------------------------------------
(* Sessions in which a statement of the dispatcher itself may throw: in    *)
(* the for loop of performScanBatch (pc = "draw") or in performMaintenance *)
(* after a batch (pc = "await").  The exception leaves the while loop of   *)
(* startScanning, whose try block encloses it, for the catch block.        *)

\* startScanning: the catch block calls emergencyShutdown(), which runs to
\* the file write of saveProgress
DispatcherError ==
    /\ \/ pc = "draw"
       \/ pc = "await" /\ InFlight = {} /\ stats.totalScanned % MaintenanceEvery = 0
    /\ faults < MaxFaults
    /\ faults' = faults + 1
    /\ pc' = "emergency"
    /\ isRunning' = FALSE
    /\ sessionStats' = Some(statsData(stats))
    /\ candidate' = Null
    /\ UNCHANGED <<callVars, pingVars, config, stats, serverCache, ipBlacklist,
                   rateLimiter, catalog, jsonFile, emitted, tasks, batchIndex,
                   loopWake, now, foundAtStart, scannedDiscarded, resets,
                   isPaused, shouldStop, stopPc, summaries, shutdownEvents,
                   pauses>>

\* emergencyShutdown: saveProgress returned, emit('emergencyShutdown') and
\* process.exit(1); the probes in flight end with the process
EmergencyExit ==
    /\ pc = "emergency"
    /\ pc' = "exited"
    /\ tasks' = <<>>
    /\ UNCHANGED <<faults, callVars, pingVars, controlVars, config, stats,
                   serverCache, ipBlacklist, rateLimiter, catalog, jsonFile,
                   emitted, batchIndex, candidate, loopWake, now, foundAtStart,
                   scannedDiscarded, resets>>

FaultInit ==
    /\ InitWith({DefaultConfig, JsonConfig}, {Null},
                {p \in PreviousSessions : ~p.exists}, Tick)
    /\ NoCall

FaultNext ==
    \/ LoopEnter
    \/ Draw
    \/ DrawEnd
    \/ BatchSettled
    \/ LoopShutdownSaved
    \/ LoopShutdownExported
    \/ \E t \in TaskIds : PingNoResponse(t)
    \/ \E t \in TaskIds : PingServer(t)
    \/ \E t \in TaskIds : DnsDone(t)
    \/ \E t \in TaskIds : BackoffDone(t)
    \/ \E t \in TaskIds : DelayDone(t)
    \/ \E t \in TaskIds, ok \in BOOLEAN : AppendDone(t, ok)
    \/ \E t \in TaskIds : JsonReadDone(t)
    \/ \E t \in TaskIds, ok \in BOOLEAN : JsonWriteDone(t, ok)
    \/ TickClock
    \/ DispatcherError
    \/ EmergencyExit

FaultSpec == FaultInit /\ [][FaultNext]_vars

-----------------------------------------------------------------------------
(* One call of performServerPing: the socket, its timeout timer and the    *)
(* handlers of the 'connect', 'data', 'error' and 'close' events.  The     *)
(* initial state is the state after the synchronous body of the promise    *)
(* executor: timer armed, socket connecting.                               *)

\* chunks of a response: the two halves of a status response, in order,
\* make a response that parseServerResponse accepts
Chunks == {"head", "tail"}

\* parseServerResponse, as far as the ping depends on it: the status object
\* of a complete response, an exception (null here) otherwise
ParsedResponse(buffer) ==
    IF buffer = <<"head", "tail">> THEN Some("status") ELSE Null

\* performServerPing: cleanup()
cleanup == IF socket \in {"destroyed", "closed"} THEN socket ELSE "destroyed"

\* performServerPing: the setTimeout callback
SocketTimeout ==
    /\ timeoutArmed
    /\ timeoutArmed' = FALSE
    /\ timedOut' = TRUE
    /\ IF ~hasResponded
       THEN /\ hasResponded' = TRUE
            /\ socket' = cleanup
            /\ closePending' = (closePending \/ socket \in {"connecting", "open"})
            /\ resolved' = Append(resolved, Null)
       ELSE UNCHANGED <<hasResponded, socket, closePending, resolved>>
    /\ UNCHANGED <<responseBuffer, faults, callVars, controlVars, config, stats, serverCache,
                   ipBlacklist, rateLimiter, catalog, jsonFile, emitted, tasks,
                   pc, batchIndex, candidate, loopWake, now, foundAtStart,
                   scannedDiscarded, resets>>

\* performServerPing: the connect callback; writeOk = FALSE when building or
\* writing the handshake throws
SocketConnect(writeOk) ==
    /\ socket = "connecting"
    /\ IF writeOk
       THEN /\ socket' = "open"
            /\ UNCHANGED <<timeoutArmed, hasResponded, closePending, resolved>>
       ELSE /\ timeoutArmed' = FALSE
            /\ hasResponded' = TRUE
            /\ socket' = "destroyed"
            /\ closePending' = TRUE
            /\ resolved' = Append(resolved, Null)
    /\ UNCHANGED <<responseBuffer, timedOut, faults, callVars, controlVars, config, stats,
                   serverCache, ipBlacklist, rateLimiter, catalog, jsonFile,
                   emitted, tasks, pc, batchIndex, candidate, loopWake, now,
                   foundAtStart, scannedDiscarded, resets>>

\* performServerPing: the 'data' handler
SocketData(chunk) ==
    /\ socket = "open"
    /\ Len(responseBuffer) < MaxChunks
    /\ responseBuffer' = Append(responseBuffer, chunk)
    /\ UNCHANGED <<socket, hasResponded, timeoutArmed, resolved, closePending,
                   timedOut, faults, callVars, controlVars, config, stats, serverCache,
                   ipBlacklist, rateLimiter, catalog, jsonFile, emitted, tasks,
                   pc, batchIndex, candidate, loopWake, now, foundAtStart,
                   scannedDiscarded, resets>>

\* performServerPing: the 'error' handler; the socket that reports an error
\* has been destroyed by the runtime and its 'close' event follows
SocketError ==
    /\ socket \in {"connecting", "open"}
    /\ socket' = "destroyed"
    /\ closePending' = TRUE
    /\ IF ~hasResponded
       THEN /\ hasResponded' = TRUE
            /\ timeoutArmed' = FALSE
            /\ resolved' = Append(resolved, Null)
       ELSE UNCHANGED <<hasResponded, timeoutArmed, resolved>>
    /\ UNCHANGED <<responseBuffer, timedOut, faults, callVars, controlVars, config, stats,
                   serverCache, ipBlacklist, rateLimiter, catalog, jsonFile,
                   emitted, tasks, pc, batchIndex, candidate, loopWake, now,
                   foundAtStart, scannedDiscarded, resets>>

\* a 'close' handler that resolves without testing hasResponded
SocketCloseUnguarded ==
    /\ socket = "open" \/ closePending
    /\ socket' = "closed"
    /\ closePending' = FALSE
    /\ hasResponded' = TRUE
    /\ timeoutArmed' = FALSE
    /\ resolved' = Append(resolved, ParsedResponse(responseBuffer))
    /\ UNCHANGED <<responseBuffer, timedOut, faults, callVars, controlVars, config, stats,
                   serverCache, ipBlacklist, rateLimiter, catalog, jsonFile,
                   emitted, tasks, pc, batchIndex, candidate, loopWake, now,
                   foundAtStart, scannedDiscarded, resets>>

\* performServerPing: the 'close' handler, when the peer has closed an open
\* connection or after the socket was destroyed
SocketClose ==
    /\ socket = "open" \/ closePending
    /\ socket' = "closed"
    /\ closePending' = FALSE
    /\ IF ~hasResponded
       THEN /\ hasResponded' = TRUE
            /\ timeoutArmed' = FALSE
            /\ resolved' = Append(resolved, ParsedResponse(responseBuffer))
       ELSE UNCHANGED <<hasResponded, timeoutArmed, resolved>>
    /\ UNCHANGED <<responseBuffer, timedOut, faults, callVars, controlVars, config, stats,
                   serverCache, ipBlacklist, rateLimiter, catalog, jsonFile,
                   emitted, tasks, pc, batchIndex, candidate, loopWake, now,
                   foundAtStart, scannedDiscarded, resets>>

PingInit ==
    /\ InitWith({DefaultConfig}, {Null}, {p \in PreviousSessions : ~p.exists}, Tick)
    /\ NoCall

PingNext ==
    \/ SocketTimeout
    \/ \E writeOk \in BOOLEAN : SocketConnect(writeOk)
    \/ \E chunk \in Chunks : SocketData(chunk)
    \/ SocketError
    \/ SocketClose

PingSpec == PingInit /\ [][PingNext]_vars

-----------------------------------------------------------------------------
(* Functions of the scanner that depend on their arguments only.  Each is  *)
(* applied on its own to an argument drawn from a bounded set: a scanner   *)
(* just initialized, the argument in arg, the returned value in result.    *)

\* a scanner after initialize() on which the method `call` has not run yet
CallInit(args) ==
    /\ InitWith({DefaultConfig}, {Null}, {p \in PreviousSessions : ~p.exists}, Tick)
    /\ call = "none"
    /\ arg \in args
    /\ result = Null

\* the frame of a call: nothing of the scanner changes
Returns(name, value) ==
    /\ call' = name
    /\ result' = value
    /\ UNCHANGED <<faults, arg, pingVars, controlVars, config, stats, serverCache,
                   ipBlacklist, rateLimiter, catalog, jsonFile, emitted, tasks,
                   pc, batchIndex, candidate, loopWake, now, foundAtStart,
                   scannedDiscarded, resets>>

\* all sequences over S of length at most n
RECURSIVE SeqsUpTo(_, _)
SeqsUpTo(S, n) ==
    IF n = 0 THEN {<<>>}
    ELSE LET shorter == SeqsUpTo(S, n - 1)
         IN  shorter \cup {Append(q, x) : q \in shorter, x \in S}

-----------------------------------------------------------------------------
(* parseServerResponse and readVarInt.  A buffer is a sequence of bytes.   *)

\* what a function that can throw returns
Threw == [threw |-> TRUE, value |-> 0, bytesRead |-> 0]
Returned(value, bytesRead) == [threw |-> FALSE, value |-> value, bytesRead |-> bytesRead]

\* (currentByte & 0x7F) << (7 * bytesRead), a signed 32-bit integer: of the
\* fifth group only the low four bits stay, the fourth of them as the sign
Group(currentByte, bytesRead) ==
    LET bits == currentByte % 128
    IN  IF bytesRead < 4 THEN bits * Pow2(7 * bytesRead)
        ELSE IF bits % 16 >= 8 THEN ((bits % 16) - 16) * Pow2(28)
        ELSE (bits % 16) * Pow2(28)

\* readVarInt: the do-while loop entered with value and bytesRead; the
\* groups occupy disjoint bits, so |= adds
RECURSIVE readVarIntLoop(_, _, _, _)
readVarIntLoop(buffer, offset, value, bytesRead) ==
    IF offset + bytesRead >= Len(buffer) THEN Threw
    ELSE LET currentByte == buffer[offset + bytesRead + 1]
             newValue == value + Group(currentByte, bytesRead)
         IN  IF currentByte >= 128 /\ bytesRead + 1 < 5
             THEN readVarIntLoop(buffer, offset, newValue, bytesRead + 1)
             ELSE Returned(newValue, bytesRead + 1)

readVarInt(buffer, offset) == readVarIntLoop(buffer, offset, 0, 0)

\* the bytes of '{' and '}'
OpenBrace == 123
CloseBrace == 125

\* the bytes of the modelled buffers: 0x00, 0x02 and 0xFF before the text,
\* braces and the letter 'g' in it
HeaderBytes == {0, 2, 255}
TextBytes == {OpenBrace, CloseBrace, 103}

\* JSON.parse of a text over these bytes: the only JSON text is "{}"
JSONparse(text) ==
    IF text = <<OpenBrace, CloseBrace>> THEN Returned("{}", 0) ELSE Threw

\* responseString.match(/{.*}/): from the first '{' to the last '}' (none
\* of the bytes is a line terminator)
Match(text) ==
    LET opens == {i \in 1..Len(text) : text[i] = OpenBrace}
        first == CHOOSE i \in opens : \A j \in opens : i <= j
        closes == {i \in 1..Len(text) : text[i] = CloseBrace /\ i > first}
        last == CHOOSE i \in closes : \A j \in closes : i >= j
    IN  IF opens = {} THEN Null
        ELSE IF closes = {} THEN Null
        ELSE Some(SubSeq(text, first, last))

\* parseServerResponse: the catch block
Fallback(buffer) ==
    LET jsonMatch == Match(buffer)
    IN  IF IsNull(jsonMatch) THEN Null
        ELSE IF JSONparse(Val(jsonMatch)).threw THEN Null
        ELSE Some(JSONparse(Val(jsonMatch)).value)

\* parseServerResponse: null, or the parsed status
parseServerResponse(buffer) ==
    IF Len(buffer) < 2 THEN Null
    ELSE LET packet == readVarInt(buffer, 0)
             afterLength == packet.bytesRead
             packetId == readVarInt(buffer, afterLength)
             afterId == afterLength + packetId.bytesRead
             json == readVarInt(buffer, afterId)
             offset == afterId + json.bytesRead
             jsonData == SubSeq(buffer, offset + 1, offset + json.value)
         IN  IF packet.threw THEN Fallback(buffer)
             ELSE IF packet.value <= 0 \/ afterLength >= Len(buffer) THEN Null
             ELSE IF packetId.threw THEN Fallback(buffer)
             ELSE IF json.threw THEN Fallback(buffer)
             ELSE IF json.value <= 0 \/ json.value > Len(buffer) - offset THEN Null
             ELSE IF JSONparse(jsonData).threw THEN Fallback(buffer)
             ELSE Some(JSONparse(jsonData).value)

\* the responses the functions are applied to: header bytes, then text
Buffers ==
    { header \o text : header \in SeqsUpTo(HeaderBytes, MaxHeader),
                       text \in SeqsUpTo(TextBytes, MaxText) }

ParseInit == CallInit(Buffers)

CallReadVarInt ==
    /\ call = "none"
    /\ Returns("readVarInt", readVarInt(arg, 0))

CallParseServerResponse ==
    /\ call = "none"
    /\ Returns("parseServerResponse", parseServerResponse(arg))

ParseNext ==
    \/ CallReadVarInt
    \/ CallParseServerResponse

ParseSpec == ParseInit /\ [][ParseNext]_vars

-----------------------------------------------------------------------------
(* createHandshakePacket and the bytes written by the connect callback of  *)
(* performServerPing.  An address is passed as its dotted-quad string.     *)

\* the decimal digits of n, as bytes
RECURSIVE Digits(_)
Digits(n) == IF n < 10 THEN <<48 + n>> ELSE Digits(n \div 10) \o <<48 + (n % 10)>>

\* parts.join('.')
ipString(ip) ==
    Digits(ip[1]) \o <<46>> \o Digits(ip[2]) \o <<46>> \o Digits(ip[3])
        \o <<46>> \o Digits(ip[4])

\* Buffer.alloc(size): zero-filled
BufferAlloc(size) == [i \in 1..size |-> 0]

\* packet.writeUInt8(value, offset)
writeUInt8(packet, value, offset) == [packet EXCEPT ![offset + 1] = value]

\* hostnameBuffer.copy(packet, offset)
BufferCopy(source, packet, offset) ==
    [i \in 1..Len(packet) |->
        IF i > offset /\ i <= offset + Len(source) THEN source[i - offset]
        ELSE packet[i]]

\* packet.writeUInt16BE(value, offset)
writeUInt16BE(packet, value, offset) ==
    [packet EXCEPT ![offset + 1] = value \div 256, ![offset + 2] = value % 256]

createHandshakePacket(hostname, port) ==
    LET hostnameBuffer == hostname
        allocated == BufferAlloc(Len(hostnameBuffer) + 7)
        withId == writeUInt8(allocated, 0, 0)
        withVersion == writeUInt8(withId, 0, 1)
        withLength == writeUInt8(withVersion, Len(hostnameBuffer), 2)
        withHost == BufferCopy(hostnameBuffer, withLength, 3)
        afterHost == 3 + Len(hostnameBuffer)
        withPort == writeUInt16BE(withHost, port, afterHost)
    IN  writeUInt8(withPort, 1, afterHost + 2)

\* performServerPing, connect callback: the two socket.write calls
ConnectWrites(ip, port) ==
    createHandshakePacket(ipString(ip), port) \o <<1, 0>>

\* addresses and ports the packet is built for
HandshakeHosts ==
    RandomSample \cup {<<1, 1, 1, 1>>, <<208, 67, 222, 1>>, <<255, 255, 255, 255>>}

HandshakePorts == {1, 255, 256, 25565, 65535}

HandshakeInit ==
    CallInit({[ip |-> ip, port |-> port] : ip \in HandshakeHosts, port \in HandshakePorts})

CallCreateHandshakePacket ==
    /\ call = "none"
    /\ Returns("createHandshakePacket", createHandshakePacket(ipString(arg.ip), arg.port))

CallConnect ==
    /\ call = "none"
    /\ Returns("connect", ConnectWrites(arg.ip, arg.port))

HandshakeNext ==
    \/ CallCreateHandshakePacket
    \/ CallConnect

HandshakeSpec == HandshakeInit /\ [][HandshakeNext]_vars

-----------------------------------------------------------------------------
(* Enrichment of a status response: extractVersion, extractDescription,    *)
(* extractMOTD, calculateQualityScore and the record enhanceServerInfo     *)
(* builds from them.  A string is the sequence of its characters; the      *)
(* section sign of a formatting code is the character "SECTION".           *)

Includes(str, sub) ==
    \E i \in 0..(Len(str) - Len(sub)) : SubSeq(str, i + 1, i + Len(sub)) = sub

\* rawInfo.version?.name, or 'Unknown'
extractVersion(rawInfo) ==
    IF ~IsNull(rawInfo.version) /\ Val(rawInfo.version).name # <<>>
    THEN Val(rawInfo.version).name
    ELSE <<"U", "n", "k", "n", "o", "w", "n">>

\* rawInfo.description?.text, or 'No description'
extractDescription(rawInfo) ==
    IF ~IsNull(rawInfo.description) /\ Val(rawInfo.description).text # <<>>
    THEN Val(rawInfo.description).text
    ELSE <<"N", "o", " ", "d", "e", "s", "c", "r", "i", "p", "t", "i", "o", "n">>

\* the characters after the section sign in /§[0-9a-fk-or]/
FormatCodes ==
    {"0", "1", "2", "3", "4", "5", "6", "7", "8", "9", "a", "b", "c", "d", "e",
     "f", "k", "l", "m", "n", "o", "r"}

\* desc.replace(/§[0-9a-fk-or]/g, '')
RECURSIVE StripCodes(_)
StripCodes(str) ==
    IF str = <<>> THEN <<>>
    ELSE IF Len(str) >= 2 /\ str[1] = "SECTION" /\ str[2] \in FormatCodes
    THEN StripCodes(SubSeq(str, 3, Len(str)))
    ELSE <<str[1]>> \o StripCodes(Tail(str))

\* String.prototype.trim
RECURSIVE Trim(_)
Trim(str) ==
    IF str = <<>> THEN <<>>
    ELSE IF str[1] \in {" ", "\n"} THEN Trim(Tail(str))
    ELSE IF str[Len(str)] \in {" ", "\n"} THEN Trim(SubSeq(str, 1, Len(str) - 1))
    ELSE str

extractMOTD(rawInfo) == Trim(StripCodes(extractDescription(rawInfo)))

knownVersions ==
    {<<"1", ".", "2", "1">>, <<"1", ".", "2", "0">>,
     <<"1", ".", "1", "9">>, <<"1", ".", "1", "8">>}

\* calculateQualityScore with one bonus for any number of players online
calculateQualityScoreOneTier(serverInfo) ==
    LET players == IF serverInfo.players.online > 0 THEN 20 ELSE 0
        description == IF Len(serverInfo.motd) > 10 THEN 15 ELSE 0
        version == IF \E v \in knownVersions : Includes(serverInfo.version, v)
                   THEN 15 ELSE 0
        response == IF serverInfo.responseTime < 100 THEN 10 ELSE 0
    IN  Min(players + description + version + response, 100)

calculateQualityScore(serverInfo) ==
    LET players == (IF serverInfo.players.online > 0 THEN 20 ELSE 0)
                   + (IF serverInfo.players.online > 10 THEN 20 ELSE 0)
                   + (IF serverInfo.players.online > 50 THEN 20 ELSE 0)
        description == IF Len(serverInfo.motd) > 10 THEN 15 ELSE 0
        version == IF \E v \in knownVersions : Includes(serverInfo.version, v)
                   THEN 15 ELSE 0
        response == IF serverInfo.responseTime < 100 THEN 10 ELSE 0
    IN  Min(players + description + version + response, 100)

\* enhanceServerInfo: the fields of the enhanced record that are modelled
EnhancedServer(ip, rawInfo, responseTime) ==
    LET enhanced ==
            [ ip           |-> ip,
              responseTime |-> responseTime,
              version      |-> extractVersion(rawInfo),
              players      |-> [ online |-> IF IsNull(rawInfo.players) THEN 0
                                            ELSE Val(rawInfo.players).online,
                                 max    |-> IF IsNull(rawInfo.players) THEN 0
                                            ELSE Val(rawInfo.players).max ],
              motd         |-> extractMOTD(rawInfo),
              qualityScore |-> 0 ]
    IN  [enhanced EXCEPT !.qualityScore = calculateQualityScore(enhanced)]

\* status responses of remote servers, and measured response times
StatusVersions ==
    {Null, Some([name |-> <<"1", ".", "2", "0", ".", "4">>, protocol |-> 765]),
     Some([name |-> <<"1", ".", "8", ".", "9">>, protocol |-> 47])}

StatusPlayers ==
    {Null} \cup {Some([online |-> n, max |-> 100]) : n \in {0, 5, 25, 51}}

StatusDescriptions ==
    {Null, Some([text |-> <<"W", "e", "l", "c", "o", "m", "e">>]),
     Some([text |-> <<"SECTION", "a", "W", "e", "l", "c", "o", "m", "e", " ">>]),
     Some([text |-> <<"A", " ", "M", "i", "n", "e", "c", "r", "a", "f", "t", " ", "S", "e", "r", "v", "e", "r">>])}

ResponseTimes == {50, 100, 150}

EnrichInit ==
    CallInit({[rawInfo |-> [version |-> v, players |-> pl, description |-> d],
               responseTime |-> rt] :
                 v \in StatusVersions, pl \in StatusPlayers,
                 d \in StatusDescriptions, rt \in ResponseTimes})

CallEnhanceServerInfo ==
    /\ call = "none"
    /\ Returns("enhanceServerInfo",
               EnhancedServer(<<9, 9, 9, 1>>, arg.rawInfo, arg.responseTime))

CallCalculateQualityScore ==
    /\ call = "none"
    /\ Returns("calculateQualityScore",
               calculateQualityScore(
                   EnhancedServer(<<9, 9, 9, 1>>, arg.rawInfo, arg.responseTime)))

EnrichNext ==
    \/ CallEnhanceServerInfo
    \/ CallCalculateQualityScore

EnrichSpec == EnrichInit /\ [][EnrichNext]_vars

-----------------------------------------------------------------------------
(* The seen-set trim of performMaintenance, with its two thresholds scaled *)
(* down to TrimN and TrimN / 2, applied to seen-sets of up to MaxCache     *)
(* addresses in every insertion order.                                     *)

SeenSets ==
    LET addresses == {<<8, 8, 8, h>> : h \in 1..MaxCache}
    IN  {q \in SeqsUpTo(addresses, MaxCache) :
            \A i, j \in 1..Len(q) : i # j => q[i] # q[j]}

TrimInit == CallInit(SeenSets)

CallPerformMaintenance ==
    /\ call = "none"
    /\ Returns("performMaintenance", TrimCache(arg, TrimN, TrimN \div 2))

TrimNext == CallPerformMaintenance

TrimSpec == TrimInit /\ [][TrimNext]_vars

-----------------------------------------------------------------------------
(* The text catalog: formatServerLine and the appendFile of saveServer     *)
(* write it, loadExistingData of a later session reads it.  Texts are      *)
(* sequences of bytes; version and MOTD are the strings the remote server  *)
(* supplied.                                                               *)

Bar == 124
Newline == 10

\* str.split(separator)
RECURSIVE Split(_, _)
Split(str, separator) ==
    LET at == {i \in 1..Len(str) : str[i] = separator}
        first == CHOOSE i \in at : \A j \in at : i <= j
    IN  IF at = {} THEN <<str>>
        ELSE <<SubSeq(str, 1, first - 1)>>
                 \o Split(SubSeq(str, first + 1, Len(str)), separator)

\* fields.join('|')
RECURSIVE Join(_, _)
Join(fields, separator) ==
    IF Len(fields) = 0 THEN <<>>
    ELSE IF Len(fields) = 1 THEN fields[1]
    ELSE fields[1] \o <<separator>> \o Join(Tail(fields), separator)

\* parseInt of a string of digits
RECURSIVE ParseInt(_)
ParseInt(digits) ==
    IF digits = <<>> THEN 0
    ELSE ParseInt(SubSeq(digits, 1, Len(digits) - 1)) * 10
             + (digits[Len(digits)] - 48)

\* isValidIP of a string: /^(\d{1,3}\.){3}\d{1,3}$/ and every octet <= 255
isValidIPString(str) ==
    LET octets == Split(str, 46)
    IN  /\ Len(octets) = 4
        /\ \A i \in 1..4 :
              /\ Len(octets[i]) \in 1..3
              /\ \A k \in 1..Len(octets[i]) :
                    octets[i][k] >= 48 /\ octets[i][k] <= 57
              /\ ParseInt(octets[i]) <= 255

\* motd.replace(/\n/g, ' ').substring(0, 50)
MotdField(motd) ==
    LET spaced == [i \in 1..Len(motd) |-> IF motd[i] = Newline THEN 32 ELSE motd[i]]
    IN  SubSeq(spaced, 1, Min(50, Len(spaced)))

\* formatServerLine; the timestamp is the text "T"
formatServerLine(serverInfo) ==
    Join(<< ipString(serverInfo.ip),
            serverInfo.version,
            Digits(serverInfo.players.online) \o <<47>> \o Digits(serverInfo.players.max),
            MotdField(serverInfo.motd),
            serverInfo.country,
            Digits(serverInfo.qualityScore),
            <<84>> >>, Bar)

\* saveServer for each server in turn: fs.appendFile(outputFile, line + '\n')
RECURSIVE AppendLines(_, _)
AppendLines(file, servers) ==
    IF servers = <<>> THEN file
    ELSE AppendLines(file \o formatServerLine(Head(servers)) \o <<Newline>>,
                     Tail(servers))

\* line.trim() is empty
IsBlank(line) == \A i \in 1..Len(line) : line[i] \in {9, 10, 13, 32}

\* loadExistingData: the forEach over the lines, adding first fields
RECURSIVE LoadLines(_, _)
LoadLines(cache, lines) ==
    IF lines = <<>> THEN cache
    ELSE LET line == Head(lines)
             ip == Split(line, Bar)[1]
         IN  LoadLines(IF ~IsBlank(line) /\ ip # <<>> /\ isValidIPString(ip)
                       THEN CacheAdd(cache, ip) ELSE cache,
                       Tail(lines))

\* loadExistingData: the seen-set read from the text of the catalog
loadExistingData(serversData) == LoadLines(<<>>, Split(serversData, Newline))

\* version and MOTD strings of remote servers: "1.20", "1.20|1.20",
\* "1.20\n1.20", "1.20\n6.6.6.6"; "Hi", "H\ni", "H|i"
RemoteVersions ==
    LET plain == Digits(1) \o <<46>> \o Digits(20)
    IN  { plain,
          plain \o <<Bar>> \o plain,
          plain \o <<Newline>> \o plain,
          plain \o <<Newline>> \o ipString(<<6, 6, 6, 6>>) }

RemoteMotds == { <<72, 105>>, <<72, Newline, 105>>, <<72, Bar, 105>> }

FoundServers ==
    { [ ip |-> ip, version |-> v, players |-> [online |-> 5, max |-> 20],
        motd |-> m, country |-> <<85, 110, 107>>, qualityScore |-> 35 ] :
          ip \in {<<8, 8, 8, 1>>, <<9, 9, 9, 1>>},
          v \in RemoteVersions, m \in RemoteMotds }

CatalogInit == CallInit(SeqsUpTo(FoundServers, MaxServers))

\* the servers of arg are saved one after the other to an empty catalog
CallSaveServer ==
    /\ call = "none"
    /\ Returns("saveServer", AppendLines(<<>>, arg))

\* a later session reads the catalog
CallLoadExistingData ==
    /\ call = "saveServer"
    /\ Returns("loadExistingData", loadExistingData(result))

CatalogNext ==
    \/ CallSaveServer
    \/ CallLoadExistingData

CatalogSpec == CatalogInit /\ [][CatalogNext]_vars

-----------------------------------------------------------------------------
(* saveConfiguration followed by loadConfiguration: this.config is written *)
(* to config.json and merged back from it, for configurations with and     *)
(* without a scan cap and a player cap.                                    *)

SavedConfigs ==
    { [DefaultConfig EXCEPT !.maxScans = scans, !.maxPlayers = players] :
        scans \in {Some(Infinity), Some(BatchSize), Some(MaxScans)},
        players \in {Some(Infinity), Some(20)} }

\* a configuration, and a state it is consulted in: the scans made so far
\* and the players online at a server that answered
ConfigInit ==
    CallInit({ [config |-> cfg, totalScanned |-> n, online |-> online] :
                 cfg \in SavedConfigs, n \in 0..MaxScans, online \in {0, 5, 50} })

CallSaveConfiguration ==
    /\ call = "none"
    /\ Returns("saveConfiguration", Some(saveConfiguration(arg.config)))

\* the next start of the scanner, constructed with the same options
CallLoadConfiguration ==
    /\ call = "saveConfiguration"
    /\ Returns("loadConfiguration", loadConfiguration(arg.config, result))

ConfigNext ==
    \/ CallSaveConfiguration
    \/ CallLoadConfiguration

ConfigSpec == ConfigInit /\ [][ConfigNext]_vars

-----------------------------------------------------------------------------
(* The maintenance trigger of the main loop, around a multiple of 50,000  *)

\* how far from the multiple the batch may start
NearMultiple == 20

\* startScanning: the condition of the maintenance if
maintenanceDue(totalScanned) == totalScanned % MaintenanceEvery = 0

\* totalScanned before a batch, and the number of scanSingleServer calls
\* the batch makes
MaintenanceInit ==
    CallInit({ [before |-> b, scanned |-> n] :
                 b \in (MaintenanceEvery - NearMultiple)..(MaintenanceEvery + NearMultiple),
                 n \in 0..BatchSize })

\* await this.performScanBatch(): every scanSingleServer counted its scan
CallPerformScanBatch ==
    /\ call = "none"
    /\ Returns("performScanBatch", Some(arg.before + arg.scanned))

\* the if after the batch: performMaintenance is awaited or skipped
CallMaintenanceCheck ==
    /\ call = "performScanBatch"
    /\ Returns("startScanning",
               [totalScanned |-> Val(result), maintenance |-> maintenanceDue(Val(result))])

MaintenanceNext ==
    \/ CallPerformScanBatch
    \/ CallMaintenanceCheck

MaintenanceSpec == MaintenanceInit /\ [][MaintenanceNext]_vars

-----------------------------------------------------------------------------
(* Properties *)

InCidr(ip, cidr) ==
    LET hostBits == 32 - cidr.prefix
    IN  MaskHost(ipToNumber(ip), hostBits) = MaskHost(ipToNumber(cidr.base), hostBits)

InAnyCidr(ip, ranges) == \E cidr \in ranges : InCidr(ip, cidr)

Abs(x) == IF x < 0 THEN -x ELSE x

\* C1 as stated: in every reachable state totalFound <= totalScanned.
\* Fails: loadExistingData restores totalFound while totalScanned starts at
\* 0, and resetStats zeroes totalScanned while keeping totalFound.
C1_TotalFoundLeTotalScanned ==
    stats.totalFound <= stats.totalScanned

\* C1 amended: the servers found in this session (totalFound minus the value
\* loaded at startup) never exceed the probes started in this session
\* (totalScanned plus the counts resetStats has zeroed); and totalFound <=
\* totalScanned holds while nothing was loaded and resetStats was not called.
C1_SessionFoundLeSessionScanned ==
    /\ stats.totalFound - foundAtStart <= stats.totalScanned + scannedDiscarded
    /\ (foundAtStart = 0 /\ resets = 0) => stats.totalFound <= stats.totalScanned

\* C1 witness: after a resetStats() a probe has found a server, and
\* totalFound exceeds totalScanned
C1_Witness ==
    /\ resets > 0
    /\ stats.totalFound > foundAtStart
    /\ stats.totalFound > stats.totalScanned

\* C2: no address is appended to the text catalog more than once in a session
C2_NoDuplicateCatalogLines ==
    \A i, j \in 1..Len(catalog) : i # j => catalog[i].ip # catalog[j].ip

\* C3: two probes of the same /24 that both opened a connection were
\* admitted at least 1000 ms apart
C3_SameSubnetAdmissionsSpaced ==
    \A t1, t2 \in 1..Len(tasks) :
        ( /\ t1 # t2
          /\ tasks[t1].pc = "ping"
          /\ tasks[t2].pc = "ping"
          /\ Subnet(tasks[t1].ip) = Subnet(tasks[t2].ip) )
        => Abs(tasks[t1].startTime - tasks[t2].startTime) >= RateLimitMs

\* C4: activeConnections stays within [0, maxConcurrent]
C4_ActiveConnectionsInRange ==
    /\ stats.activeConnections >= 0
    /\ stats.activeConnections <= config.maxConcurrent

\* C5: a probe that ends with no response has been retried until the attempt
\* count reached maxRetries, so its address is in the blacklist
C5_NoResponseRetriedThenBlacklisted ==
    \A t \in 1..Len(tasks) :
        tasks[t].outcome = "noresponse" => tasks[t].ip \in ipBlacklist

\* C6: no step opens a connection to an address that is in the blacklist
C6_BlacklistedNeverProbed ==
    [][ \A t \in 1..Len(tasks') :
          ( /\ tasks'[t].pc = "ping"
            /\ (t > Len(tasks) \/ tasks[t].pc # "ping") )
          => tasks'[t].ip \notin ipBlacklist ]_vars

\* The filter predicates as the specification states them
FilterPredicates(cfg, server) ==
    /\ IsNull(cfg.versionFilter) \/ server.version \in Val(cfg.versionFilter)
    /\ cfg.minPlayers <= server.online
    /\ IsNull(cfg.maxPlayers) \/ server.online <= Val(cfg.maxPlayers)

\* C7: every server appended to a catalog or emitted as 'serverFound' passes
\* the filter predicates, and totalFound counts exactly the emitted servers
C7_OnlyFilteredServersEmitted ==
    /\ \A i \in 1..Len(catalog) : FilterPredicates(config, catalog[i])
    /\ \A i \in 1..Len(jsonFile) : FilterPredicates(config, jsonFile[i])
    /\ \A i \in 1..Len(emitted) : FilterPredicates(config, emitted[i])
    /\ stats.totalFound = foundAtStart + Len(emitted)

\* C7 witness: with a version filter configured, one server has been emitted
\* and a probe of another server has ended rejected by the filters
C7_Witness ==
    /\ ~IsNull(config.versionFilter)
    /\ Len(emitted) > 0
    /\ \E t \in 1..Len(tasks) : tasks[t].outcome = "filtered"

\* C8: the generator never returns an address of a reserved range, of the
\* seen-set or of the blacklist
C8_GeneratorAvoidsExcludedSeenBlacklisted ==
    (pc = "draw" /\ ~IsNull(candidate)) =>
        /\ ~InAnyCidr(Val(candidate).ip, getExcludedRanges)
        /\ ~CacheHas(serverCache, Val(candidate).ip)
        /\ Val(candidate).ip \notin ipBlacklist

\* C9: no candidate lies inside a CIDR of the configured excludeRanges
C9_ConfiguredExcludeRangesRejected ==
    (pc = "draw" /\ ~IsNull(candidate)) =>
        ~InAnyCidr(Val(candidate).ip, config.excludeRanges)

\* C10: scanMode 'random' uses the uniform random strategy only, and scanMode
\* 'range' draws inside the configured ipRanges
C10_ScanModeSelectsStrategy ==
    (pc = "draw" /\ ~IsNull(candidate)) =>
        /\ config.scanMode = "random" => Val(candidate).strategy = "random"
        /\ config.scanMode = "range" => InAnyCidr(Val(candidate).ip, config.ipRanges)

\* No control command (pause, stop, reset) has been issued so far
NoControl == resets = 0 /\ pauses = 0 /\ ~shouldStop

\* C11: with a finite maxScans and no control command, the dispatcher leaves
\* its loop only when totalScanned has reached maxScans, and once it has
\* reached maxScans the loop eventually exits and shutdown completes
C11_CapReachedLeadsToShutdown ==
    /\ []((NoControl /\ pc \in {"saving", "exporting", "done"})
            => stats.totalScanned >= ToNumber(config.maxScans))
    /\ (NoControl /\ stats.totalScanned >= ToNumber(config.maxScans))
          ~> (~NoControl \/ (pc = "done" /\ shutdownEvents > 0))

\* C11 witness: without any control command the cap was reached, the loop
\* has exited and shutdown has completed
C11_Witness ==
    /\ NoControl
    /\ stats.totalScanned >= ToNumber(config.maxScans)
    /\ stats.totalFound > 0
    /\ pc = "done"
    /\ shutdownEvents = 1

\* C12: with maxScans null the dispatcher stays in its loop until stop() is
\* called
C12_NullMaxScansKeepsScanning ==
    (IsNull(config.maxScans) /\ ~shouldStop) => pc \in {"loop", "draw", "await"}

\* C13: once stop() has been called no batch is started and totalScanned is
\* not incremented, and the dispatcher eventually leaves its loop and
\* completes shutdown
C13_StopEndsDispatcher ==
    /\ [][shouldStop => /\ (pc' = "draw" => pc = "draw")
                        /\ stats'.totalScanned <= stats.totalScanned]_vars
    /\ shouldStop ~> (pc = "done")

\* C13 witness: stop() was called while the scanner was paused with the
\* cap not reached, and the dispatcher has completed shutdown
C13_Witness ==
    /\ shouldStop
    /\ isPaused
    /\ stats.totalScanned < ToNumber(config.maxScans)
    /\ pc = "done"

\* C14: once a shutdown has completed (snapshot saved, summary exported,
\* 'shutdown' emitted) no probe completes: the statistics, the catalogs and
\* the emitted events do not change any more
C14_NothingAfterShutdown ==
    [][shutdownEvents > 0 =>
          UNCHANGED <<stats, catalog, jsonFile, emitted, serverCache>>]_vars

C16_SeenCandidateCountedAsDuplicate ==
    [][(pc = "draw" /\ batchIndex' = batchIndex + 1
          /\ CacheHas(serverCache, Val(candidate').ip))
        => /\ stats'.duplicatesSkipped = stats.duplicatesSkipped + 1
           /\ catalog' = catalog]_vars

\* the addresses of the tasks of the current batch
TaskAddresses == {tasks[t].ip : t \in 1..Len(tasks)}

C18_NoLostJsonUpdate ==
    config.exportJson =>
        \A t \in 1..Len(tasks) :
            tasks[t].outcome = "found"
            => \E j \in 1..Len(jsonFile) : jsonFile[j].ip = tasks[t].ip

\* C19: the number of probes with an open connection never exceeds
\* maxConcurrent
C19_OpenConnectionsWithinGate ==
    Cardinality({t \in 1..Len(tasks) : tasks[t].pc = "ping"})
        <= config.maxConcurrent

\* C20: a ping resolves at most once, and exactly when hasResponded is set;
\* once it has resolved the timer is no longer pending and the socket is
\* destroyed or closed; an expired timeout gives the outcome null, whatever
\* arrives afterwards
C20_PingResolvesOnce ==
    /\ Len(resolved) = (IF hasResponded THEN 1 ELSE 0)
    /\ hasResponded => (~timeoutArmed /\ socket \in {"destroyed", "closed"})
    /\ ~timeoutArmed => hasResponded
    /\ timedOut => resolved = <<Null>>

\* C20 witness: the whole response was received, the timeout fired before
\* the peer closed, the 'close' event arrived afterwards and the outcome is
\* still null
C20_Witness ==
    /\ timedOut
    /\ socket = "closed"
    /\ ParsedResponse(responseBuffer) # Null
    /\ resolved = <<Null>>

\* C30: a candidate that the rate limiter defers is not counted as scanned:
\* the step that starts its task and finds it rate limited leaves
\* totalScanned unchanged
C30_DeferredNotCounted ==
    [][(Len(tasks') > Len(tasks) /\ tasks'[Len(tasks')].pc = "delay100")
          => stats'.totalScanned = stats.totalScanned]_vars

\* C29: the rate-limiter entry of a /24 is written by the step that allows a
\* probe (the step in which a task starts to await its ping), with the time
\* of that step, and not by the step in which the ping completes
C29_LimiterEntryWrittenOnAllow ==
    [][\A t \in 1..Len(tasks') :
          /\ (tasks'[t].pc = "ping" /\ (t > Len(tasks) \/ tasks[t].pc # "ping"))
                => /\ Subnet(tasks'[t].ip) \in DOMAIN rateLimiter'
                   /\ rateLimiter'[Subnet(tasks'[t].ip)] = now
          /\ (t <= Len(tasks) /\ tasks[t].pc = "ping" /\ tasks'[t].pc # "ping")
                => rateLimiter' = rateLimiter]_vars

\* the parse of the specification: the strict parse, and the fallback
\* whenever a step of the strict parse fails
StrictFails(buffer) ==
    LET packet == readVarInt(buffer, 0)
        packetId == readVarInt(buffer, packet.bytesRead)
        afterId == packet.bytesRead + packetId.bytesRead
        json == readVarInt(buffer, afterId)
        offset == afterId + json.bytesRead
    IN  \/ packet.threw \/ packet.value <= 0
        \/ packetId.threw
        \/ json.threw \/ json.value <= 0 \/ json.value > Len(buffer) - offset
        \/ JSONparse(SubSeq(buffer, offset + 1, offset + json.value)).threw

\* C23: whenever a step of the strict parse fails, parseServerResponse
\* returns what the fallback extracts between the first '{' and the last '}'
C23_FailedStrictParseFallsBack ==
    (call = "parseServerResponse" /\ StrictFails(arg)) => result = Fallback(arg)

\* C24: readVarInt returns no value for a buffer whose first five bytes all
\* have the continuation bit set
C24_FifthContinuationIsError ==
    ( /\ call = "readVarInt"
      /\ Len(arg) >= 5
      /\ \A i \in 1..5 : arg[i] >= 128 )
    => result.threw

\* C22: a session survives an exception raised at dispatcher level: each is
\* counted in errorsEncountered and the dispatcher never leaves its loop for
\* the emergency shutdown
C22_DispatcherErrorCountedAndSurvived ==
    /\ stats.errorsEncountered >= faults
    /\ pc \notin {"emergency", "exited"}

\* a step of the probe task t
TaskStep(t) ==
    \/ PingNoResponse(t)
    \/ PingServer(t)
    \/ DnsDone(t)
    \/ BackoffDone(t)
    \/ DelayDone(t)
    \/ \E ok \in BOOLEAN : AppendDone(t, ok)
    \/ JsonReadDone(t)
    \/ \E ok \in BOOLEAN : JsonWriteDone(t, ok)

\* the step catches an exception raised in probe t: enrichment threw (the
\* probe backs off or gives up) or saving failed
ExceptionCaught(t) ==
    /\ tasks[t].pc # "done"
    /\ t <= Len(tasks')
    /\ \/ tasks'[t].outcome \in {"threw", "savefailed"}
       \/ tasks[t].pc = "ping" /\ tasks'[t].pc = "backoff"

\* C21: a step that catches an exception of one probe changes neither the
\* dispatcher's position nor any other probe of the batch; without an
\* exception at dispatcher level the dispatcher never leaves its loop for
\* the emergency shutdown; and every probe in flight can still take a step
\* (at once, or when its delay has ended)
C21_ProbeErrorsContained ==
    /\ [][\A t \in 1..Len(tasks) :
             ExceptionCaught(t) =>
                 /\ pc' = pc
                 /\ \A u \in 1..Len(tasks) : u # t => tasks'[u] = tasks[u]]_vars
    /\ [](faults = 0 => pc \notin {"emergency", "exited"})
    /\ [](\A t \in InFlight :
             pc \notin {"draw", "emergency"} => (ENABLED TaskStep(t) \/ tasks[t].wake > now))

\* C21 witness: in one batch the save of one probe has failed, another probe
\* has then found and saved its server, and the dispatcher awaits the batch
C21_Witness ==
    /\ pc = "await"
    /\ \E t, u \in 1..Len(tasks) :
          /\ tasks[t].outcome = "savefailed"
          /\ tasks[u].outcome = "found"
          /\ Len(emitted) > 1
          /\ emitted[Len(emitted)].ip = tasks[u].ip
          /\ tasks[u].ip # tasks[t].ip

\* C25: the bytes written on connect for hostname h (length L) and port p are
\* 0x00, 0x00, L, h, p >> 8, p & 0xff, 0x01 followed at once by 0x01 0x00,
\* and the last byte of the handshake packet is 0x01
C25_HandshakeBytes ==
    LET h == ipString(arg.ip)
        handshake == <<0, 0, Len(h)>> \o h \o <<arg.port \div 256, arg.port % 256, 1>>
    IN  /\ call = "connect" => result = handshake \o <<1, 0>>
        /\ call = "createHandshakePacket" => result[Len(result)] = 1

\* the status {"version":{"name":"1.20.4","protocol":765},
\* "players":{"online":25,"max":100},"description":{"text":"Welcome"}}
\* received after at least 100 ms
WelcomeStatus(a) ==
    /\ a.rawInfo = [ version |-> Some([name |-> <<"1", ".", "2", "0", ".", "4">>, protocol |-> 765]),
                     players |-> Some([online |-> 25, max |-> 100]),
                     description |-> Some([text |-> <<"W", "e", "l", "c", "o", "m", "e">>]) ]
    /\ a.responseTime >= 100

\* C26 as stated: enrichment of that status yields version 1.20.4, players
\* 25/100, motd 'Welcome' and quality score 50
C26_WelcomeScores50 ==
    (call = "enhanceServerInfo" /\ WelcomeStatus(arg)) =>
        /\ result.version = <<"1", ".", "2", "0", ".", "4">>
        /\ result.players = [online |-> 25, max |-> 100]
        /\ result.motd = <<"W", "e", "l", "c", "o", "m", "e">>
        /\ result.qualityScore = 50

\* C26 amended: enrichment of that status yields version 1.20.4, players
\* 25/100, motd 'Welcome' and quality score 55: 20 for players online, 20
\* for more than 10 players, 15 for the version, nothing for a motd of 7
\* characters or a response time of 100 ms or more
C26_WelcomeScores55 ==
    (call = "enhanceServerInfo" /\ WelcomeStatus(arg)) =>
        /\ result.version = <<"1", ".", "2", "0", ".", "4">>
        /\ result.players = [online |-> 25, max |-> 100]
        /\ result.motd = <<"W", "e", "l", "c", "o", "m", "e">>
        /\ result.qualityScore = 20 + 20 + 15

\* C26 witness: enhanceServerInfo has returned for that status
C26_Witness ==
    /\ call = "enhanceServerInfo"
    /\ WelcomeStatus(arg)
    /\ result.qualityScore > 0

\* C27: maintenance leaves a seen-set of at most N entries as it is; a
\* seen-set of more than N entries is cut to its N/2 most recently inserted
\* addresses, in their order, and nothing older is kept
C27_TrimKeepsMostRecent ==
    call = "performMaintenance" =>
        IF Len(arg) > TrimN
        THEN /\ Len(result) = TrimN \div 2
             /\ \A i \in 1..Len(result) :
                   result[i] = arg[Len(arg) - Len(result) + i]
             /\ \A i \in 1..(Len(arg) - (TrimN \div 2)) :
                   ~CacheHas(result, arg[i])
        ELSE result = arg

\* C27 witness: a seen-set of more than N entries was trimmed and its most
\* recent address was kept
C27_Witness ==
    /\ call = "performMaintenance"
    /\ Len(arg) > TrimN
    /\ Len(result) < Len(arg)
    /\ result[Len(result)] = arg[Len(arg)]

\* C28: the seen-set that loadExistingData recovers from the catalog is
\* exactly the set of the addresses that were appended to it
C28_CatalogRoundTrip ==
    call = "loadExistingData" =>
        {result[i] : i \in 1..Len(result)} = {ipString(arg[i].ip) : i \in 1..Len(arg)}

\* C40: without resetStats(), totalScanned never exceeds maxScans by a whole
\* batch: totalScanned <= maxScans + min(batchSize, maxConcurrent) - 1; and
\* when the loop has exited because of the cap, totalScanned >= maxScans
C40_OvershootBelowOneBatch ==
    resets = 0 =>
        /\ stats.totalScanned <=
              ToNumber(config.maxScans) + Min(config.batchSize, config.maxConcurrent) - 1
        /\ (pc \in {"saving", "exporting", "done"} /\ ~shouldStop)
              => stats.totalScanned >= ToNumber(config.maxScans)

\* C39: after saveConfiguration and loadConfiguration the loop guard
\* totalScanned < maxScans and the filters give the same results as with
\* the configuration that was saved
C39_ConfigRoundTripKeepsBehaviour ==
    call = "loadConfiguration" =>
        LET server == [ip |-> <<9, 9, 9, 1>>, version |-> "1.20.4", online |-> arg.online]
        IN  /\ (arg.totalScanned < ToNumber(result.maxScans))
                  = (arg.totalScanned < ToNumber(arg.config.maxScans))
            /\ passesFilters(result, server) = passesFilters(arg.config, server)

\* C38: every address a probe opens a connection to lies outside the seven
\* built-in reserved ranges
C38_ConnectionsOutsideReservedRanges ==
    \A t \in 1..Len(tasks) :
        tasks[t].pc = "ping" => ~InAnyCidr(tasks[t].ip, getExcludedRanges)

\* C38 witness: after a discovery the cluster strategy has produced the
\* address to which the newest probe has opened its connection
C38_Witness ==
    /\ ~IsNull(stats.lastFoundServer)
    /\ ~IsNull(candidate)
    /\ Val(candidate).strategy = "cluster"
    /\ Len(tasks) > 0
    /\ tasks[Len(tasks)].ip = Val(candidate).ip
    /\ tasks[Len(tasks)].pc = "ping"
    /\ Subnet(Val(candidate).ip) = Subnet(Val(stats.lastFoundServer).ip)

\* C37: whenever no probe is in flight, the increments of totalFound in this
\* session and the 'serverFound' events both equal the number of lines
\* appended to the text catalog
C37_FoundCountsWrittenLines ==
    InFlight = {} =>
        /\ stats.totalFound - foundAtStart = Len(catalog)
        /\ Len(emitted) = Len(catalog)

\* C36: batches never overlap: between two batches no probe is in flight,
\* and when a batch starts (first draw of performScanBatch) every probe of
\* the previous batch has completed, so that without a resetStats()
\* activeConnections is 0
C36_BatchesNeverOverlap ==
    /\ pc = "loop" => InFlight = {}
    /\ (pc = "draw" /\ batchIndex = 0) =>
          /\ InFlight = {}
          /\ resets = 0 => stats.activeConnections = 0

\* a second batch starts after a batch whose probe was retried
C36_Witness ==
    /\ pc = "draw"
    /\ batchIndex = 0
    /\ resets = 0
    /\ stats.totalScanned > 0
    /\ stats.connectionErrors > 0
    /\ stats.activeConnections = 0

\* C32: within the retry chain of one address the attempts are ordered:
\* the retry count only grows by one, attempt k+1 starts only from the
\* backoff that followed the failure of attempt k, that backoff was set to
\* end 500*(k+1) ms after the failure and has elapsed, and a connection is
\* only opened for a retry count below maxRetries (at most maxRetries
\* connections per chain)
C32_RetryChainOrdered ==
    [][\A t \in 1..Len(tasks) :
          t <= Len(tasks') =>
             /\ tasks'[t].retry \in {tasks[t].retry, tasks[t].retry + 1}
             /\ tasks'[t].retry # tasks[t].retry =>
                   /\ tasks[t].pc = "backoff"
                   /\ now >= tasks[t].wake
             /\ (tasks[t].pc = "ping" /\ tasks'[t].pc = "backoff") =>
                   tasks'[t].wake = now + RetryDelayMs * (tasks[t].retry + 1)
             /\ tasks[t].pc = "backoff" => tasks'[t].pc # "backoff" \/ tasks'[t] = tasks[t]
             /\ tasks'[t].pc = "ping" => tasks'[t].retry + 1 <= config.maxRetries]_vars

\* the second attempt of a chain has opened its connection, at least 500 ms
\* after the first one was opened
C32_Witness ==
    \E t \in 1..Len(tasks) :
        /\ tasks[t].pc = "ping"
        /\ tasks[t].retry = 1
        /\ tasks[t].startTime >= Tick + RetryDelayMs
        /\ stats.connectionErrors > 0

\* C35: shutdown runs at most once per session: at most one summary is
\* exported and at most one 'shutdown' event is emitted, and once the
\* dispatcher and stop() have both finished there is exactly one of each
C35_ShutdownRunsOnce ==
    /\ Len(summaries) <= 1
    /\ shutdownEvents <= 1
    /\ (pc = "done" /\ stopPc \in {"idle", "done"}) =>
          (Len(summaries) = 1 /\ shutdownEvents = 1)

\* C34: while the scanner is paused no candidate is drawn, no probe is
\* added and no first attempt connects, so totalScanned does not change;
\* the probes in flight while paused still complete; the sleep of the
\* paused loop ends at most 1000 ms ahead, and after resume() the loop
\* draws the next batch unless its guard has become false or pause() is
\* called again
C34_PausedDispatcherIdles ==
    /\ [][(isPaused /\ isPaused') =>
              /\ pc' # "draw"
              /\ stats'.totalScanned = stats.totalScanned
              /\ Len(tasks') <= Len(tasks)
              /\ \A t \in 1..Len(tasks') :
                    (tasks'[t].pc = "ping" /\ tasks'[t].retry = 0) =>
                        tasks[t].pc = "ping"]_vars
    /\ [](pc = "loop" => loopWake <= now + PauseDelayMs)
    /\ \A t \in TaskIds : (isPaused /\ t \in InFlight) ~> (t \notin InFlight)
    /\ (pauses > 0 /\ ~isPaused /\ pc = "loop")
          ~> (pc = "draw" \/ ~LoopGuard \/ isPaused)

\* the paused dispatcher has started its 1000 ms sleep after a first batch
C34_Witness ==
    /\ isPaused
    /\ pc = "loop"
    /\ loopWake = now + PauseDelayMs
    /\ stats.totalScanned > 0
    /\ LoopGuard

\* C31: after a batch the main loop runs performMaintenance exactly when the
\* batch made totalScanned reach or pass a multiple of 50,000
C31_MaintenanceAtEveryMultiple ==
    call = "startScanning" =>
        (result.maintenance
            = (result.totalScanned \div MaintenanceEvery > arg.before \div MaintenanceEvery))

\* C33: a probe whose reverse-DNS lookup is pending completes anyway, and
\* the batch that waits for it settles so that the main loop goes on
C33_PendingLookupDoesNotBlock ==
    \A t \in TaskIds :
        (pc = "await" /\ t \in InFlight /\ tasks[t].pc = "dns")
            ~> (t \notin InFlight /\ pc # "await")

====
